---- MODULE Spec2Model ----
(***************************************************************************)
(* Verification model of the signal-box analyzer core:                     *)
(*   analyzer/calculator.py      pricing and cost calculation              *)
(*   analyzer/detectors/*.py     confidence scoring and component          *)
(*                               extraction                                *)
(*   analyzer/optimizer.py       task classification and the optimization  *)
(*                               chain                                     *)
(*   api/routes/analyze.py       the request handler that selects the      *)
(*                               framework and calls the optimizer         *)
(*   api/services/github.py      the fetch with retries                    *)
(*                                                                         *)
(* Money is an integer number of units of 5e-10 dollar, prices per 1K      *)
(* tokens are integers in 1e-5 dollar units, so (tokens/1000)*price_per_1k *)
(* is exactly tokens * price * 20 money units.  Rates (cache hit rate,     *)
(* token reduction rate) are integer percentages, multiples of 5.  A       *)
(* string is a sequence of fragments; "s contains k" means that k is one   *)
(* of the fragments of s.                                                  *)
(***************************************************************************)
EXTENDS Integers, Sequences, FiniteSets, TLC

VARIABLES
    calc,        \* CostCalculation held by the caller (calculate_cost's return)
    derived,     \* CostCalculation returned by the last apply_optimization
    result,      \* OptimizationResult returned by the last apply_optimization
    detection,   \* DetectionResult under construction / returned by detect()
    workflow,    \* OptimizedWorkflow returned by the last optimize_workflow
    raised,      \* exception propagated by the last call, "none" if it returned
    returned,    \* value returned by the last call of a helper function
    input,       \* the arguments the client supplies
    last,        \* the last call made
    analysis_cache,  \* analysis_cache[analysis_id] of the request in progress
    frame        \* analyze_repository's position and local variables

vars == <<calc, derived, result, detection, workflow, raised, returned, input, last,
          analysis_cache, frame>>

\* Python None; an optional scalar that is present is wrapped as Some(v)
None == [none |-> TRUE]
Some(v) == [some |-> v]

\* the element of a singleton set: {e(x) : x \in {v}} binds x to the value v
Only(S) == CHOOSE x \in S : TRUE

SeqsUpTo(S, n) == UNION {[1..k -> S] : k \in 0..n}

-----------------------------------------------------------------------------
(* Arithmetic helpers *)

\* Python int(): truncation toward zero of n/d, d > 0
Trunc(n, d) == IF n >= 0 THEN n \div d ELSE -((-n) \div d)

Range(s) == {s[i] : i \in DOMAIN s}

Contains(text, fragment) == fragment \in Range(text)

\* savings_percent is the rational 100 * num / den; zero is 0/1
Percent(num, den) == [num |-> num, den |-> den]
ZeroPercent == [num |-> 0, den |-> 1]

-----------------------------------------------------------------------------
(* analyzer/calculator.py *)

DefaultModel == "gpt-3.5-turbo"

\* the output ratio used when the operation type has none of its own, in tenths
default_output_ratio == 3

\* density multipliers per operation type, in tenths
token_rules ==
    [system_prompt |-> 12, code_generation |-> 25, summarization |-> 5,
     qa |-> 8, classification |-> 1]

\* output ratios per operation type, in tenths
output_ratios ==
    [code_generation |-> 25, summarization |-> 3, classification |-> 1,
     qa |-> 8, general |-> default_output_ratio]

\* CostCalculator.estimate_tokens(text, operation_type); the reasoning is kept
\* as the numbers it is formatted from, the confidence is in percent
CostCalculator_estimate_tokens(text, operation_type) ==
    LET base_tokens  == text.chars \div 4
        multiplier   == IF operation_type \in DOMAIN token_rules
                        THEN token_rules[operation_type] ELSE 10
        input_tokens == Trunc(base_tokens * multiplier, 10)
        output_ratio == IF operation_type \in DOMAIN output_ratios
                        THEN output_ratios[operation_type] ELSE default_output_ratio
        output_tokens == Trunc(input_tokens * output_ratio, 10)
    IN  [input_tokens  |-> input_tokens,
         output_tokens |-> output_tokens,
         reasoning     |-> [chars |-> text.chars, base_tokens |-> base_tokens,
                            operation_type |-> operation_type,
                            multiplier |-> multiplier, output_ratio |-> output_ratio],
         confidence    |-> IF operation_type # "general" THEN 80 ELSE 60]

\* prices per 1K tokens in 1e-5 dollar
model_pricing ==
    [m \in {"gpt-4", "gpt-4-turbo", "gpt-4-turbo-preview", "gpt-3.5-turbo",
            "gpt-3.5-turbo-16k", "claude-3-opus", "claude-3-sonnet",
            "claude-3-haiku", "claude-2.1", "text-embedding-ada-002",
            "text-davinci-003"} |->
        CASE m = "gpt-4"                  -> [input_cost_per_1k |-> 3000, output_cost_per_1k |-> 6000]
          [] m = "gpt-4-turbo"            -> [input_cost_per_1k |-> 1000, output_cost_per_1k |-> 3000]
          [] m = "gpt-4-turbo-preview"    -> [input_cost_per_1k |-> 1000, output_cost_per_1k |-> 3000]
          [] m = "gpt-3.5-turbo"          -> [input_cost_per_1k |-> 50,   output_cost_per_1k |-> 150]
          [] m = "gpt-3.5-turbo-16k"      -> [input_cost_per_1k |-> 300,  output_cost_per_1k |-> 400]
          [] m = "claude-3-opus"          -> [input_cost_per_1k |-> 1500, output_cost_per_1k |-> 7500]
          [] m = "claude-3-sonnet"        -> [input_cost_per_1k |-> 300,  output_cost_per_1k |-> 1500]
          [] m = "claude-3-haiku"         -> [input_cost_per_1k |-> 25,   output_cost_per_1k |-> 125]
          [] m = "claude-2.1"             -> [input_cost_per_1k |-> 800,  output_cost_per_1k |-> 2400]
          [] m = "text-embedding-ada-002" -> [input_cost_per_1k |-> 10,   output_cost_per_1k |-> 10]
          [] m = "text-davinci-003"       -> [input_cost_per_1k |-> 2000, output_cost_per_1k |-> 2000]]

\* model_pricing.get(model): a model string is a key iff it is exactly the id
InPricing(model) == Len(model) = 1 /\ model[1] \in DOMAIN model_pricing

\* a fallback that forgets the id it was asked about
FallbackAnnotation_dropped(model) == <<DefaultModel>>

\* f"{model} (using gpt-3.5-turbo pricing)"
FallbackAnnotation(model) == model \o <<" (using ", DefaultModel, " pricing)">>

\* (tokens / 1000) * price_per_1k, in money units
TokenCost(tokens, price_per_1k) == tokens * price_per_1k * 20

calculate_cost(input_tokens, output_tokens, model, description) ==
    LET known   == InPricing(model)
        pricing == IF known THEN model_pricing[model[1]]
                            ELSE model_pricing[DefaultModel]
        mdl     == IF known THEN model ELSE FallbackAnnotation(model)
        input_cost  == TokenCost(input_tokens, pricing.input_cost_per_1k)
        output_cost == TokenCost(output_tokens, pricing.output_cost_per_1k)
    IN  [description        |-> IF description # <<>> THEN description
                                ELSE <<"Cost calculation for ">> \o mdl,
         input_tokens       |-> input_tokens,
         output_tokens      |-> output_tokens,
         model              |-> mdl,
         input_price_per_1k |-> pricing.input_cost_per_1k,
         output_price_per_1k|-> pricing.output_cost_per_1k,
         input_cost         |-> input_cost,
         output_cost        |-> output_cost,
         total_cost         |-> input_cost + output_cost]

\* what a call hands back: a (calculation, result) pair, or an exception
Returned(c, r) == [calc |-> c, result |-> r, raised |-> "none"]
Raised(e)      == [calc |-> None, result |-> None, raised |-> e]

OptimizationResult(type, original_cost, optimized_cost, savings, savings_percent, explanation) ==
    [optimization_type |-> type,
     original_cost     |-> original_cost,
     optimized_cost    |-> optimized_cost,
     savings           |-> savings,
     savings_percent   |-> savings_percent,
     explanation       |-> explanation]

_apply_model_substitution(original_calc, target_model, reason) ==
    LET explanation == IF reason # <<>> THEN reason
                       ELSE <<"Substituted ">> \o original_calc.model
                            \o <<" with ">> \o target_model
    IN  Only({
            Returned(new_calc,
                     OptimizationResult("model_substitution", original_calc.total_cost,
                         new_calc.total_cost,
                         original_calc.total_cost - new_calc.total_cost,
                         IF original_calc.total_cost > 0
                         THEN Percent(original_calc.total_cost - new_calc.total_cost,
                                      original_calc.total_cost)
                         ELSE ZeroPercent,
                         explanation)) :
            new_calc \in {calculate_cost(original_calc.input_tokens,
                                         original_calc.output_tokens,
                                         target_model,
                                         original_calc.description
                                           \o <<" (optimized with ">> \o target_model \o <<")">>)} })

\* 0.0001 dollar
cache_cost_per_hit == 200000

\* an expected cost that leaves the cost of the cache hits out
ExpectedCost_hits_free(total_cost, hit_pct) == (100 - hit_pct) * (total_cost \div 100)

\* (1 - hit_rate) * total_cost + hit_rate * cache_cost_per_hit.  Every price is
\* a multiple of 5, so the total_cost of a record priced by calculate_cost is a
\* multiple of 100 units and the result is exact, and a multiple of 5
ExpectedCost(total_cost, hit_pct) ==
    (100 - hit_pct) * (total_cost \div 100) + hit_pct * (cache_cost_per_hit \div 100)

_apply_caching(original_calc, cache_hit_rate) ==
    Only({
        IF original_calc.total_cost = 0
        THEN Raised("ZeroDivisionError")
        ELSE Returned(
                [description        |-> original_calc.description
                                        \o <<" (with ", ToString(cache_hit_rate), "% caching)">>,
                 input_tokens       |-> Trunc(original_calc.input_tokens * (100 - cache_hit_rate), 100),
                 output_tokens      |-> Trunc(original_calc.output_tokens * (100 - cache_hit_rate), 100),
                 model              |-> original_calc.model,
                 input_price_per_1k |-> original_calc.input_price_per_1k,
                 output_price_per_1k|-> original_calc.output_price_per_1k,
                 input_cost         |-> (expected_cost \div 5) * 2,
                 output_cost        |-> (expected_cost \div 5) * 3,
                 total_cost         |-> expected_cost],
                OptimizationResult("caching", original_calc.total_cost, expected_cost,
                    original_calc.total_cost - expected_cost,
                    Percent(original_calc.total_cost - expected_cost, original_calc.total_cost),
                    <<"Applied ", ToString(cache_hit_rate), "% semantic caching">>)) :
        expected_cost \in {ExpectedCost(original_calc.total_cost, cache_hit_rate)} })

_apply_token_reduction(original_calc, reduction_rate) ==
    Only({
        IF original_calc.total_cost = 0
        THEN Raised("ZeroDivisionError")
        ELSE Returned(new_calc,
                OptimizationResult("token_reduction", original_calc.total_cost,
                    new_calc.total_cost,
                    original_calc.total_cost - new_calc.total_cost,
                    Percent(original_calc.total_cost - new_calc.total_cost,
                            original_calc.total_cost),
                    <<"Reduced tokens by ", ToString(reduction_rate), "%">>)) :
        new_calc \in {calculate_cost(
                        Trunc(original_calc.input_tokens * (100 - reduction_rate), 100),
                        Trunc(original_calc.output_tokens * (100 - reduction_rate), 100),
                        original_calc.model,
                        original_calc.description \o <<" (token-optimized)">>)} })

\* a dispatch that rejects a type it does not know
apply_optimization_strict(original_calc, optimization_type, kwargs) ==
    CASE optimization_type = "model_substitution" ->
            _apply_model_substitution(original_calc, kwargs.target_model, kwargs.reason)
      [] optimization_type = "caching" ->
            _apply_caching(original_calc, kwargs.cache_hit_rate)
      [] optimization_type = "token_reduction" ->
            _apply_token_reduction(original_calc, kwargs.reduction_rate)
      [] OTHER -> Raised("ValueError")

\* kwargs: [target_model, reason] / [cache_hit_rate] / [reduction_rate]
apply_optimization(original_calc, optimization_type, kwargs) ==
    CASE optimization_type = "model_substitution" ->
            _apply_model_substitution(original_calc, kwargs.target_model, kwargs.reason)
      [] optimization_type = "caching" ->
            _apply_caching(original_calc, kwargs.cache_hit_rate)
      [] optimization_type = "token_reduction" ->
            _apply_token_reduction(original_calc, kwargs.reduction_rate)
      [] OTHER ->
            Returned(original_calc,
                     OptimizationResult("none", original_calc.total_cost,
                                        original_calc.total_cost, 0, ZeroPercent,
                                        <<"No optimization applied">>))

-----------------------------------------------------------------------------
(* analyzer/detectors/base.py *)

Min(a, b) == IF a < b THEN a ELSE b

\* the ladder with strict comparisons
calculate_confidence_strict(file_matches, code_matches, import_matches, config_matches) ==
    LET s1 == IF config_matches > 0 THEN 40 ELSE 0
        s2 == s1 + (IF import_matches > 0 THEN 35 ELSE 0)
        s3 == s2 + (IF code_matches > 0 THEN Min(20, code_matches * 5) ELSE 0)
        score == s3 + (IF file_matches > 0 THEN Min(5, file_matches * 1) ELSE 0)
        confidence == IF score > 75 THEN "HIGH"
                      ELSE IF score > 40 THEN "MEDIUM"
                      ELSE IF score > 10 THEN "LOW"
                      ELSE "NONE"
    IN  [confidence |-> confidence, confidence_score |-> Min(100, score)]

\* the import weight assigned (score = 35) where the code adds it (score += 35)
calculate_confidence_overwrite(file_matches, code_matches, import_matches, config_matches) ==
    LET s1 == IF config_matches > 0 THEN 40 ELSE 0
        s2 == IF import_matches > 0 THEN 35 ELSE s1
        s3 == s2 + (IF code_matches > 0 THEN Min(20, code_matches * 5) ELSE 0)
        score == s3 + (IF file_matches > 0 THEN Min(5, file_matches * 1) ELSE 0)
        confidence == IF score >= 75 THEN "HIGH"
                      ELSE IF score >= 40 THEN "MEDIUM"
                      ELSE IF score >= 10 THEN "LOW"
                      ELSE "NONE"
    IN  [confidence |-> confidence, confidence_score |-> Min(100, score)]

calculate_confidence(file_matches, code_matches, import_matches, config_matches) ==
    LET s1 == IF config_matches > 0 THEN 40 ELSE 0
        s2 == s1 + (IF import_matches > 0 THEN 35 ELSE 0)
        s3 == s2 + (IF code_matches > 0 THEN Min(20, code_matches * 5) ELSE 0)
        score == s3 + (IF file_matches > 0 THEN Min(5, file_matches * 1) ELSE 0)
        confidence == IF score >= 75 THEN "HIGH"
                      ELSE IF score >= 40 THEN "MEDIUM"
                      ELSE IF score >= 10 THEN "LOW"
                      ELSE "NONE"
    IN  [confidence |-> confidence, confidence_score |-> Min(100, score)]

\* DetectionResult(framework, confidence=NONE): the dataclass defaults
DetectionResult(framework) ==
    [framework         |-> framework,
     confidence        |-> "NONE",
     confidence_score  |-> 0,
     components        |-> <<>>,
     workflow_patterns |-> <<>>]

\* BaseDetector.detect from the match lists on: the lengths of the deduplicated
\* match lists are scored and stored; components are those extracted per file
BaseDetect(framework, counts, components) ==
    LET c == calculate_confidence(counts.file_matches, counts.code_matches,
                                  counts.import_matches, counts.config_matches)
    IN  [DetectionResult(framework) EXCEPT
            !.components       = components,
            !.confidence       = c.confidence,
            !.confidence_score = c.confidence_score]

\* a detect() override that adds its bonuses and leaves the tier alone
Recalculate_skipped(res) == res

\* the "Recalculate confidence" ladder of both overrides: no else branch
Recalculate(res) ==
    IF res.confidence_score >= 75 THEN [res EXCEPT !.confidence = "HIGH"]
    ELSE IF res.confidence_score >= 40 THEN [res EXCEPT !.confidence = "MEDIUM"]
    ELSE IF res.confidence_score >= 10 THEN [res EXCEPT !.confidence = "LOW"]
    ELSE res

-----------------------------------------------------------------------------
(* analyzer/detectors/autogen.py, analyzer/detectors/langchain.py: detect() *)

\* A file content is abstracted to the substring tests detect() makes on it.
\* AutoGen:   config_list   'config_list' in content and a gpt-4/gpt-3 mention
\*            terminate     'TERMINATE' in content and 'initiate_chat' in content
AutoGenBonus(content) ==
    (IF content.config_list THEN 10 ELSE 0) + (IF content.terminate THEN 5 ELSE 0)

\* LangChain: lcel          '|' in content and ('invoke' or 'stream' in content)
\*            runnable      'RunnablePassthrough' or 'RunnableParallel' in content
\*            vector_store  one of FAISS, Chroma, Pinecone, Weaviate in content
LangChainBonus(content) ==
    (IF content.lcel THEN 10 ELSE 0) + (IF content.runnable THEN 15 ELSE 0)
      + (IF content.vector_store THEN 5 ELSE 0)

RECURSIVE SumBonus(_, _)
\* the loop over file_contents.values(), adding each content's bonuses
SumBonus(bonuses, i) ==
    IF i > Len(bonuses) THEN 0 ELSE bonuses[i] + SumBonus(bonuses, i + 1)

AutoGenDetectResult(counts, contents) ==
    LET base == BaseDetect("autogen", counts, <<>>)
    IN  Recalculate([base EXCEPT !.confidence_score =
            @ + SumBonus([i \in DOMAIN contents |-> AutoGenBonus(contents[i])], 1)])

LangChainDetectResult(counts, contents) ==
    LET base == BaseDetect("langchain", counts, <<>>)
    IN  Recalculate([base EXCEPT !.confidence_score =
            @ + SumBonus([i \in DOMAIN contents |-> LangChainBonus(contents[i])], 1)])

-----------------------------------------------------------------------------
(* Text and components *)

\* a text: its fragments and its len()
Text(fragments, chars) == [fragments |-> fragments, chars |-> chars]

\* str.lower() on one fragment
LowerFragment(f) ==
    CASE f = "Classify"  -> "classify"
      [] f = "Check"     -> "check"
      [] f = "Summarize" -> "summarize"
      [] f = "Extract"   -> "extract"
      [] f = "Template"  -> "template"
      [] f = "Prompt"    -> "prompt"
      [] f = "LLMChain"  -> "llmchain"
      [] f = "ChatOpenAI" -> "chatopenai"
      [] f = "Tool"      -> "tool"
      [] f = "You are a helpful assistant." -> "you are a helpful assistant."
      [] OTHER -> f

Lower(fragments) == [i \in DOMAIN fragments |-> LowerFragment(fragments[i])]

\* the Component dataclass; file_path and line_number are carried in the name only
Component(name, type, model, estimated_tokens, metadata) ==
    [name |-> name, type |-> type, model |-> model,
     estimated_tokens |-> estimated_tokens, metadata |-> metadata]

\* `not x` for an optional integer: None and 0 are falsy
Falsy(opt) == opt = None \/ opt.some = 0

\* BaseDetector.estimate_tokens(text, is_prompt=True)
estimate_tokens(text) == Trunc((text.chars \div 4) * 12, 10)

-----------------------------------------------------------------------------
(* analyzer/detectors/autogen.py: component extraction *)

\* node: an AssistantAgent/UserProxyAgent/ConversableAgent call with the string
\* keyword arguments it carries (None when the keyword is absent or no string)
_extract_agent_info(node) ==
    LET name == IF node.name # None /\ node.name.some.fragments # <<>>
                THEN node.name.some
                ELSE Text(<<node.agent_type, "_", ToString(node.lineno)>>, 16)
        tokens == IF node.system_message # None /\ node.system_message.some.fragments # <<>>
                  THEN estimate_tokens(node.system_message.some)
                  ELSE 0
    IN  Component(name, "agent", node.model, Some(tokens),
                  [k \in {"agent_type", "system_message", "llm_config"} |->
                      IF k = "system_message" THEN node.system_message ELSE None])

-----------------------------------------------------------------------------
(* analyzer/detectors/langchain.py: component extraction *)

component_map ==
    [f \in {"LLMChain", "ConversationChain", "RetrievalQA", "ChatOpenAI", "OpenAI",
            "PromptTemplate", "ChatPromptTemplate", "ConversationBufferMemory", "Tool"} |->
        CASE f \in {"LLMChain", "ConversationChain", "RetrievalQA"} -> "chain"
          [] f \in {"ChatOpenAI", "OpenAI"} -> "llm"
          [] f \in {"PromptTemplate", "ChatPromptTemplate"} -> "prompt"
          [] f = "ConversationBufferMemory" -> "memory"
          [] f = "Tool" -> "tool"]

\* the fragments of a called function's name
FuncFragments(func) ==
    CASE func = "PromptTemplate"     -> <<"Prompt", "Template">>
      [] func = "create_react_agent" -> <<"create", "_react_", "agent">>
      [] OTHER -> <<func>>

\* node: a call with its func name, its model keyword (llm calls) and its
\* template string (prompt calls); the result is None or a Component
_extract_component_from_call(node) ==
    LET known == node.func \in DOMAIN component_map
        is_agent == Contains(Lower(FuncFragments(node.func)), "agent")
        component_type == IF known THEN component_map[node.func] ELSE "agent"
        model == IF component_type = "llm" THEN node.model ELSE None
        template == IF component_type = "prompt" THEN node.template ELSE None
        tokens == IF template # None THEN estimate_tokens(template.some) ELSE 0
        name == Text(FuncFragments(node.func) \o <<"_", ToString(node.lineno)>>, 16)
    IN  IF ~known /\ ~is_agent THEN None
        ELSE Component(name, component_type, model, Some(tokens),
                       [k \in {"type", "function", "model", "template", "tokens"} |->
                           IF k = "template" THEN template ELSE None])

\* the fallback when ast.parse fails: `var = Constructor(` lines
_regex_extract_component(node) ==
    IF node.func \in {"LLMChain", "ChatOpenAI", "OpenAI", "PromptTemplate",
                      "ConversationChain", "RetrievalQA"}
    THEN Component(node.var, component_map[node.func],
                   IF component_map[node.func] = "llm" THEN node.model ELSE None,
                   None,
                   [k \in {"component_class"} |-> None])
    ELSE None

-----------------------------------------------------------------------------
(* analyzer/optimizer.py *)

\* task_classifiers, in dict order
task_classifiers == <<
    [task_type |-> "classification", keywords |-> {"classify", "categorize", "filter", "route", "check"}],
    [task_type |-> "formatting",     keywords |-> {"format", "template", "structure", "parse", "convert"}],
    [task_type |-> "validation",     keywords |-> {"validate", "verify", "check", "ensure", "confirm"}],
    [task_type |-> "extraction",     keywords |-> {"extract", "find", "search", "locate", "identify"}],
    [task_type |-> "summarization",  keywords |-> {"summarize", "tldr", "brief", "overview", "synopsis"}],
    [task_type |-> "generation",     keywords |-> {"generate", "create", "write", "produce", "compose"}],
    [task_type |-> "analysis",       keywords |-> {"analyze", "examine", "investigate", "study", "evaluate"}],
    [task_type |-> "qa",             keywords |-> {"question", "answer", "ask", "respond", "query"}] >>

RECURSIVE FirstMatch(_, _)
\* the first task type, from position i on, one of whose keywords is in the
\* (lower-cased) text; "" when there is none
FirstMatch(lowered, i) ==
    IF i > Len(task_classifiers) THEN ""
    ELSE IF \E k \in task_classifiers[i].keywords : Contains(lowered, k)
         THEN task_classifiers[i].task_type
         ELSE FirstMatch(lowered, i + 1)

\* metadata.get(key, '').lower(): None when the stored value is None, which is
\* where Python raises AttributeError
MetadataLower(metadata, key) ==
    IF key \notin DOMAIN metadata THEN Some(<<>>)
    ELSE IF metadata[key] = None THEN None
    ELSE Some(Lower(metadata[key].some.fragments))

classify_task(component) ==
    LET by_name == FirstMatch(Lower(component.name.fragments), 1)
        system_msg == MetadataLower(component.metadata, "system_message")
        template   == MetadataLower(component.metadata, "template")
        Ok(t) == [task_type |-> t, raised |-> "none"]
        Fail  == [task_type |-> "", raised |-> "AttributeError"]
    IN  IF by_name # "" THEN Ok(by_name)
        ELSE IF DOMAIN component.metadata = {} THEN Ok("general")
        ELSE IF system_msg = None THEN Fail
        ELSE IF FirstMatch(system_msg.some, 1) # "" THEN Ok(FirstMatch(system_msg.some, 1))
        ELSE IF template = None THEN Fail
        ELSE IF FirstMatch(template.some, 1) # "" THEN Ok(FirstMatch(template.some, 1))
        ELSE Ok("general")

model_substitutions ==
    [m \in {"gpt-4", "gpt-3.5-turbo", "claude-3-opus"} |->
        CASE m = "gpt-4" ->
                [t \in {"classification", "formatting", "validation", "extraction", "summarization"} |->
                    CASE t \in {"classification", "formatting"} -> "claude-3-haiku"
                      [] t \in {"validation", "extraction"} -> "gpt-3.5-turbo"
                      [] t = "summarization" -> "claude-3-sonnet"]
          [] m = "gpt-3.5-turbo" ->
                [t \in {"classification", "formatting"} |-> "claude-3-haiku"]
          [] m = "claude-3-opus" ->
                [t \in {"classification", "formatting", "validation", "extraction"} |->
                    IF t = "extraction" THEN "claude-3-sonnet" ELSE "claude-3-haiku"]]

\* a lookup that finds no rule for any model
suggest_model_substitution_none(component, task_type) == None

\* a lookup that takes the default model for a component that declares none
suggest_model_substitution_defaulted(component, task_type) ==
    LET current_model == IF component.model = None THEN Some(<<DefaultModel>>)
                         ELSE component.model
        key == current_model.some[1]
    IN  IF current_model.some = <<>> THEN None
        ELSE IF Len(current_model.some) = 1 /\ key \in DOMAIN model_substitutions
                /\ task_type \in DOMAIN model_substitutions[key]
             THEN Some(<<model_substitutions[key][task_type]>>)
        ELSE IF task_type \in {"classification", "formatting", "validation"}
                /\ Len(current_model.some) = 1
                /\ key \in {"gpt-4", "claude-3-opus", "gpt-3.5-turbo"}
             THEN Some(<<"claude-3-haiku">>)
        ELSE None

\* None, or Some(target model)
suggest_model_substitution(component, task_type) ==
    LET current_model == component.model
        key == current_model.some[1]
    IN  IF current_model = None \/ current_model.some = <<>> THEN None
        ELSE IF Len(current_model.some) = 1 /\ key \in DOMAIN model_substitutions
                /\ task_type \in DOMAIN model_substitutions[key]
             THEN Some(<<model_substitutions[key][task_type]>>)
        ELSE IF task_type \in {"classification", "formatting", "validation"}
                /\ Len(current_model.some) = 1
                /\ key \in {"gpt-4", "claude-3-opus", "gpt-3.5-turbo"}
             THEN Some(<<"claude-3-haiku">>)
        ELSE None

\* the entry identify_cache_opportunities appends for one component, if any
CacheOpportunity_all_high(component, task_type) ==
    IF task_type \in {"classification", "validation", "formatting", "extraction", "qa"}
    THEN <<[component |-> component.name, type |-> component.type,
            task_type |-> task_type, cache_potential |-> "high",
            estimated_hit_rate |-> 30]>>
    ELSE <<>>

CacheOpportunity(component, task_type) ==
    LET Entry(potential, rate) ==
            <<[component |-> component.name, type |-> component.type,
               task_type |-> task_type, cache_potential |-> potential,
               estimated_hit_rate |-> rate]>>
    IN  IF task_type \in {"classification", "validation", "formatting"} THEN Entry("high", 30)
        ELSE IF task_type \in {"extraction", "qa"} THEN Entry("medium", 15)
        ELSE IF task_type \in {"generation", "analysis"} THEN Entry("low", 5)
        ELSE <<>>

\* the names of strategies[0], strategies[1], strategies[2]
strategies == <<"Smart Model Routing", "Intelligent Caching", "Prompt Optimization">>

\* the state of the per-component chain at its start: original_calc is the
\* record held in original_calculations, best_calc is the same record, then
\* best_result, applied_optimizations and a propagating exception
Chain(best_calc, best_result, applied, exc) ==
    [original_calc |-> best_calc, best_calc |-> best_calc,
     best_result |-> best_result, applied |-> applied, raised |-> exc,
     attempted |-> <<>>]

\* apply_optimization is called in a step: the call is noted with its type and
\* its rate in percent (0 for a substitution, which has none)
Attempted(c, optimization_type, rate) ==
    [c EXCEPT !.attempted = Append(@, [type |-> optimization_type, rate |-> rate])]

\* a step is kept: best_calc and best_result are rebound, the strategy is noted
Accept(c, opt_calc, best_result, strategy) ==
    [c EXCEPT !.best_calc = opt_calc, !.best_result = best_result,
              !.applied = Append(@, strategy)]

\* a combination that leaves the first step's result as it is
Combine_first_only(best_result, opt_result) ==
    IF best_result # None THEN best_result ELSE opt_result

\* "Combine optimizations": savings and explanation are accumulated in place
Combine(best_result, opt_result) ==
    IF best_result # None
    THEN [best_result EXCEPT !.savings = @ + opt_result.savings,
                             !.explanation = @ \o <<" + ">> \o opt_result.explanation]
    ELSE opt_result

\* the substitution step without the `opt_calc.total_cost < best_calc.total_cost` test
SubstitutionStep_unguarded(c, component, task_type) ==
    Only({
        IF suggested_model = None THEN c
        ELSE Only({
                Accept(a, opt.calc, opt.result, strategies[1]) :
                a \in {Attempted(c, "model_substitution", 0)},
                opt \in {apply_optimization(c.best_calc, "model_substitution",
                            [target_model |-> suggested_model.some,
                             reason |-> <<"Task type '", task_type,
                                          "' can use more efficient model">>])} }) :
        suggested_model \in {suggest_model_substitution(component, task_type)} })

\* 1. Model substitution
SubstitutionStep(c, component, task_type) ==
    Only({
        IF suggested_model = None THEN c
        ELSE Only({
                IF opt.raised # "none" THEN [a EXCEPT !.raised = opt.raised]
                ELSE IF opt.calc.total_cost < c.best_calc.total_cost
                     THEN Accept(a, opt.calc, opt.result, strategies[1])
                ELSE a :
                a \in {Attempted(c, "model_substitution", 0)},
                opt \in {apply_optimization(c.best_calc, "model_substitution",
                            [target_model |-> suggested_model.some,
                             reason |-> <<"Task type '", task_type,
                                          "' can use more efficient model">>])} }) :
        suggested_model \in {suggest_model_substitution(component, task_type)} })

\* a caching step that writes the cached figures into the record it was given
\* when that record is still the original one
CachingStep_in_place(c, component, task_type) ==
    Only({
        IF c.raised # "none" THEN c
        ELSE IF cache_opps = <<>> \/ cache_opps[1].cache_potential \notin {"high", "medium"}
             THEN c
        ELSE Only({
                IF opt.raised # "none" THEN [a EXCEPT !.raised = opt.raised]
                ELSE IF opt.calc.total_cost < c.best_calc.total_cost
                     THEN [Accept(a, opt.calc, Combine(c.best_result, opt.result),
                                  strategies[2])
                             EXCEPT !.original_calc =
                                        IF c.applied = <<>> THEN opt.calc ELSE @]
                ELSE a :
                a \in {Attempted(c, "caching", cache_opps[1].estimated_hit_rate)},
                opt \in {apply_optimization(c.best_calc, "caching",
                            [cache_hit_rate |-> cache_opps[1].estimated_hit_rate])} }) :
        cache_opps \in {CacheOpportunity(component, task_type)} })

\* a caching step that keeps the cached calculation whatever it costs
CachingStep_unguarded(c, component, task_type) ==
    Only({
        IF c.raised # "none" THEN c
        ELSE IF cache_opps = <<>> \/ cache_opps[1].cache_potential \notin {"high", "medium"}
             THEN c
        ELSE Only({
                IF opt.raised # "none" THEN [a EXCEPT !.raised = opt.raised]
                ELSE Accept(a, opt.calc, Combine(c.best_result, opt.result),
                            strategies[2]) :
                a \in {Attempted(c, "caching", cache_opps[1].estimated_hit_rate)},
                opt \in {apply_optimization(c.best_calc, "caching",
                            [cache_hit_rate |-> cache_opps[1].estimated_hit_rate])} }) :
        cache_opps \in {CacheOpportunity(component, task_type)} })

\* 2. Caching (if applicable)
CachingStep(c, component, task_type) ==
    Only({
        IF c.raised # "none" THEN c
        ELSE IF cache_opps = <<>> \/ cache_opps[1].cache_potential \notin {"high", "medium"}
             THEN c
        ELSE Only({
                IF opt.raised # "none" THEN [a EXCEPT !.raised = opt.raised]
                ELSE IF opt.calc.total_cost < c.best_calc.total_cost
                     THEN Accept(a, opt.calc, Combine(c.best_result, opt.result),
                                 strategies[2])
                ELSE a :
                a \in {Attempted(c, "caching", cache_opps[1].estimated_hit_rate)},
                opt \in {apply_optimization(c.best_calc, "caching",
                            [cache_hit_rate |-> cache_opps[1].estimated_hit_rate])} }) :
        cache_opps \in {CacheOpportunity(component, task_type)} })

\* 3. Token reduction (for certain tasks)
TokenReductionStep(c, task_type) ==
    IF c.raised # "none" THEN c
    ELSE IF task_type \notin {"summarization", "extraction"} THEN c
    ELSE Only({
            IF opt.raised # "none" THEN [a EXCEPT !.raised = opt.raised]
            ELSE IF opt.calc.total_cost < c.best_calc.total_cost
                 THEN Accept(a, opt.calc, Combine(c.best_result, opt.result),
                             strategies[3])
            ELSE a :
            a \in {Attempted(c, "token_reduction", 20)},
            opt \in {apply_optimization(c.best_calc, "token_reduction",
                                        [reduction_rate |-> 20])} })

\* one iteration of the "Apply optimizations" loop
OptimizeComponent(component, original_calc) ==
    Only({
        IF ct.raised # "none"
        THEN Chain(original_calc, None, <<>>, ct.raised)
        ELSE Only({ Only({ TokenReductionStep(c2, ct.task_type) :
                           c2 \in {CachingStep(c1, component, ct.task_type)} }) :
                    c1 \in {SubstitutionStep(Chain(original_calc, None, <<>>, "none"),
                                             component, ct.task_type)} }) :
        ct \in {classify_task(component)} })

\* a back-fill that puts the type's default in place of any estimate
BackFill_overwrite(component) ==
    [component EXCEPT !.estimated_tokens =
        Some(IF component.type = "agent" THEN 1500
             ELSE IF component.type = "chain" THEN 1000 ELSE 500)]

\* "Estimate tokens if not provided": the component after the back-fill
BackFill(component) ==
    IF Falsy(component.estimated_tokens)
    THEN [component EXCEPT !.estimated_tokens =
            Some(IF component.type = "agent" THEN 1500
                 ELSE IF component.type = "chain" THEN 1000 ELSE 500)]
    ELSE component

\* the baseline calculation of a back-filled component
Baseline(component) ==
    calculate_cost(component.estimated_tokens.some,
                   Trunc(component.estimated_tokens.some * 3, 10),
                   IF component.model = None \/ component.model.some = <<>>
                   THEN <<DefaultModel>> ELSE component.model.some,
                   <<"Component: ">> \o component.name.fragments)

RECURSIVE SumCost(_, _)
SumCost(calcs, i) ==
    IF i > Len(calcs) THEN 0 ELSE calcs[i].total_cost + SumCost(calcs, i + 1)

RECURSIVE Unique(_, _, _)
\* "Remove duplicate strategies": first occurrences, in order
Unique(names, i, seen) ==
    IF i > Len(names) THEN <<>>
    ELSE IF names[i] \in seen THEN Unique(names, i + 1, seen)
    ELSE <<names[i]>> \o Unique(names, i + 1, seen \cup {names[i]})

RECURSIVE Flatten(_, _)
Flatten(seqs, i) == IF i > Len(seqs) THEN <<>> ELSE seqs[i] \o Flatten(seqs, i + 1)

\* identify_cache_opportunities(components); classify_task has not raised
identify_cache_opportunities(components) ==
    Flatten([i \in DOMAIN components |->
                CacheOpportunity(components[i], classify_task(components[i]).task_type)], 1)

\* from_agent in dependencies: some chat pattern starts at that name
InDependencies(name, workflow_patterns) ==
    \E p \in DOMAIN workflow_patterns :
        workflow_patterns[p].type = "chat" /\ workflow_patterns[p].from = name

\* callee in dependencies.get(caller, [])
CalledBy(callee, caller, workflow_patterns) ==
    \E p \in DOMAIN workflow_patterns :
        /\ workflow_patterns[p].type = "chat"
        /\ workflow_patterns[p].from = caller
        /\ workflow_patterns[p].to = callee

RECURSIVE PlaceInGroup(_, _, _, _)
\* the for/else over independent_groups: the first group none of whose members
\* calls the agent takes it, else the agent opens a group
PlaceInGroup(agent, groups, g, workflow_patterns) ==
    IF g > Len(groups) THEN Append(groups, <<agent>>)
    ELSE IF ~\E k \in DOMAIN groups[g] :
                CalledBy(agent.name, groups[g][k].name, workflow_patterns)
         THEN [groups EXCEPT ![g] = Append(@, agent)]
    ELSE PlaceInGroup(agent, groups, g + 1, workflow_patterns)

RECURSIVE IndependentGroups_unfiltered(_, _, _, _)
\* a grouping that also places the agents that start a chat
IndependentGroups_unfiltered(agents, i, groups, workflow_patterns) ==
    IF i > Len(agents) THEN groups
    ELSE IndependentGroups_unfiltered(agents, i + 1,
                                      PlaceInGroup(agents[i], groups, 1, workflow_patterns),
                                      workflow_patterns)

RECURSIVE IndependentGroups(_, _, _, _)
\* "Find independent agents": only an agent that starts no chat is placed
IndependentGroups(agents, i, groups, workflow_patterns) ==
    IF i > Len(agents) THEN groups
    ELSE IF InDependencies(agents[i].name, workflow_patterns)
         THEN IndependentGroups(agents, i + 1, groups, workflow_patterns)
    ELSE IndependentGroups(agents, i + 1,
                           PlaceInGroup(agents[i], groups, 1, workflow_patterns),
                           workflow_patterns)

OfType(components, type) == SelectSeq(components, LAMBDA c : c.type = type)

Names(components) == [i \in DOMAIN components |-> components[i].name]

\* the 'parallel_agents' entries; estimated_time_savings in percent
ParallelAgents(components, workflow_patterns) ==
    IF Len(OfType(components, "agent")) > 1
    THEN Flatten([g \in DOMAIN IndependentGroups(OfType(components, "agent"), 1, <<>>,
                                                  workflow_patterns) |->
                    Only({ IF Len(group) > 1
                           THEN <<[type |-> "parallel_agents", agents |-> Names(group),
                                   estimated_time_savings |-> 30]>>
                           ELSE <<>> :
                           group \in {IndependentGroups(OfType(components, "agent"), 1, <<>>,
                                                        workflow_patterns)[g]} })], 1)
    ELSE <<>>

\* the names listed by the 'sequential' patterns
SequentialChains(workflow_patterns) ==
    UNION {Range(workflow_patterns[p].chains) :
             p \in {q \in DOMAIN workflow_patterns : workflow_patterns[q].type = "sequential"}}

\* the 'parallel_chains' entry, if any
ParallelChains(components, workflow_patterns) ==
    IF Len(OfType(components, "chain")) > 1
    THEN Only({ IF Len(independent_chains) > 1
                THEN <<[type |-> "parallel_chains", chains |-> Names(independent_chains),
                        estimated_time_savings |-> 40]>>
                ELSE <<>> :
                independent_chains \in
                    {SelectSeq(OfType(components, "chain"),
                               LAMBDA c : c.name \notin SequentialChains(workflow_patterns))} })
    ELSE <<>>

identify_parallel_opportunities(components, workflow_patterns) ==
    ParallelAgents(components, workflow_patterns)
      \o ParallelChains(components, workflow_patterns)

RECURSIVE SumSavings(_, _)
\* sum(r.savings for r in optimization_results if r.optimization_type == 'model_substitution')
SumSavings(optimization_results, i) ==
    IF i > Len(optimization_results) THEN 0
    ELSE (IF optimization_results[i].optimization_type = "model_substitution"
          THEN optimization_results[i].savings ELSE 0)
         + SumSavings(optimization_results, i + 1)

RECURSIVE SumField(_, _, _)
SumField(records, field, i) ==
    IF i > Len(records) THEN 0 ELSE records[i][field] + SumField(records, field, i + 1)

\* f"{x:.2f}" of a money amount: the nearest number of cents (a cent is
\* 20000000 money units)
Cents(x) == IF x >= 0 THEN (x + 10000000) \div 20000000
            ELSE -((10000000 - x) \div 20000000)

\* the caching recommendation issued without the `if high_cache` test
_generate_recommendations_untested(components, optimization_results, parallel_opportunities, cache_opportunities) ==
    <<[kind |-> "semantic_caching",
       count |-> Cardinality({i \in DOMAIN cache_opportunities :
                     cache_opportunities[i].cache_potential = "high"})]>>

\* the recommendations, each as its kind and the figures its text quotes
_generate_recommendations(components, optimization_results, parallel_opportunities, cache_opportunities) ==
    (IF SumSavings(optimization_results, 1) > 0
     THEN <<[kind |-> "model_routing",
             dollars_x100 |-> Cents(SumSavings(optimization_results, 1))]>>
     ELSE <<>>)
    \o (IF \E i \in DOMAIN cache_opportunities :
               cache_opportunities[i].cache_potential = "high"
        THEN <<[kind |-> "semantic_caching",
                count |-> Cardinality({i \in DOMAIN cache_opportunities :
                              cache_opportunities[i].cache_potential = "high"})]>>
        ELSE <<>>)
    \o (IF parallel_opportunities # <<>>
        THEN <<[kind |-> "parallelize", count |-> Len(parallel_opportunities),
                percent |-> SumField(parallel_opportunities, "estimated_time_savings", 1)]>>
        ELSE <<>>)
    \o (IF (\E i \in DOMAIN components : components[i].type = "agent")
           /\ Len(components) > 3
        THEN <<[kind |-> "loop_detection"]>> ELSE <<>>)
    \o (IF SumField([i \in DOMAIN components |->
                       [tokens |-> IF Falsy(components[i].estimated_tokens) THEN 0
                                   ELSE components[i].estimated_tokens.some]],
                    "tokens", 1) > 5000
        THEN <<[kind |-> "token_optimization"]>> ELSE <<>>)

\* the OptimizedWorkflow built from the per-component outcomes, or the
\* exception of the first component whose chain raised
Aggregate(components, workflow_patterns, original_calculations, chains, failed) ==
    IF failed # {}
    THEN [components |-> components, workflow |-> None,
          raised |-> chains[CHOOSE i \in failed : \A j \in failed : i <= j].raised]
    ELSE Only({
          [components |-> components,
           workflow |->
             [original_components    |-> components,
              optimized_components   |-> components,
              original_calculations  |-> [i \in DOMAIN chains |-> chains[i].original_calc],
              optimized_calculations |-> [i \in DOMAIN chains |-> chains[i].best_calc],
              optimization_results   |-> optimization_results,
              total_original_cost    |-> total_original_cost,
              total_optimized_cost   |-> total_optimized_cost,
              total_savings          |-> total_original_cost - total_optimized_cost,
              savings_percentage     |->
                  IF total_original_cost > 0
                  THEN Percent(total_original_cost - total_optimized_cost, total_original_cost)
                  ELSE ZeroPercent,
              strategies_applied     |->
                  Unique(Flatten([i \in DOMAIN chains |-> chains[i].applied], 1), 1, {}),
              parallel_opportunities |-> parallel_opportunities,
              cache_opportunities    |-> cache_opportunities,
              recommendations        |->
                  _generate_recommendations(components, optimization_results,
                                            parallel_opportunities, cache_opportunities)],
           raised |-> "none"] :
          total_original_cost \in {SumCost(original_calculations, 1)},
          total_optimized_cost \in {SumCost([i \in DOMAIN chains |-> chains[i].best_calc], 1)},
          optimization_results \in
              {Flatten([i \in DOMAIN chains |->
                          IF chains[i].best_result # None
                          THEN <<chains[i].best_result>> ELSE <<>>], 1)},
          parallel_opportunities \in
              {identify_parallel_opportunities(components, workflow_patterns)},
          cache_opportunities \in {identify_cache_opportunities(components)} })

\* the call's outcome: the components as the call leaves them, and the
\* OptimizedWorkflow or the exception
optimize_workflow(detection_result) ==
    Only({ Only({ Only({
        Aggregate(components, detection_result.workflow_patterns,
                  original_calculations, chains,
                  {i \in DOMAIN chains : chains[i].raised # "none"}) :
        chains \in {[i \in DOMAIN components |->
                        OptimizeComponent(components[i], original_calculations[i])]} }) :
        original_calculations \in {[i \in DOMAIN components |-> Baseline(components[i])]} }) :
        components \in {[i \in DOMAIN detection_result.components |->
                            BackFill(detection_result.components[i])]} })

-----------------------------------------------------------------------------
(* api/routes/analyze.py: analyze_repository *)

\* the registered detectors, in the order of the list
detectors == <<"autogen", "langchain">>

\* a detector whose detect() raised
DetectorFailed == [raised |-> "Exception"]

NoFrameworkDetail == "No supported AI framework detected in the repository."

\* a test that aborts the request only when no result was kept
NoFrameworkDetected_unscored(best_result, best_score) == best_result = None

\* `not best_result or best_score < 10`; a DetectionResult is always truthy
NoFrameworkDetected(best_result, best_score) ==
    best_result = None \/ best_score < 10

\* the HTTPException raised inside the try block
HTTPException(status_code, detail) == [status_code |-> status_code, detail |-> detail]

\* an except clause that marks the entry failed and stores no error message
Fail_silent(cache, error) == [cache EXCEPT !.status = "failed"]

\* `except HTTPException` and `except Exception`: the cache entry is marked
\* failed and an HTTPException leaves the handler
Fail(cache, error) ==
    [cache EXCEPT !.status = "failed", !.error = Some(error)]

-----------------------------------------------------------------------------
(* api/services/github.py: _fetch_with_retry *)

\* a retry test that allows one attempt more
CanRetry_once_more(attempt, max_retries) == attempt <= max_retries

\* `if attempt < max_retries`
CanRetry(attempt, max_retries) == attempt < max_retries

\* what one GET can come to: a response with a status code, or an exception of
\* httpx
StatusCodes == {200, 202, 403, 404, 500}
Outcomes == [status_code : StatusCodes]
              \cup {[exception |-> "TimeoutException"], [exception |-> "RequestError"]}

IsResponse(outcome) == "status_code" \in DOMAIN outcome

\* what an attempt does after its GET
\*   "return"    response.json() is returned
\*   "raise"     an exception leaves the function
\*   "sleep"     asyncio.sleep, then `continue`
\*   "next"      the try block ends, the loop goes on: raise_for_status() does
\*               not raise on a 2xx code other than 200
AttemptEnds(outcome, attempt, max_retries) ==
    IF IsResponse(outcome)
    THEN CASE outcome.status_code = 200 -> [do |-> "return"]
           [] outcome.status_code = 403 ->
                IF CanRetry(attempt, max_retries)
                THEN [do |-> "sleep", seconds |-> 60 * (attempt + 1)]
                ELSE [do |-> "raise", exception |-> "GitHub API rate limit exceeded"]
           [] outcome.status_code = 404 ->
                [do |-> "raise", exception |-> "Repository not found or not accessible"]
           [] outcome.status_code >= 400 /\ outcome.status_code \notin {403, 404} ->
                [do |-> "raise", exception |-> "HTTPStatusError"]
           [] OTHER -> [do |-> "next"]
    ELSE IF CanRetry(attempt, max_retries)
         THEN [do |-> "sleep", seconds |-> 5]
    ELSE IF outcome.exception = "TimeoutException"
         THEN [do |-> "raise", exception |-> "Request timeout after multiple retries"]
    ELSE [do |-> "raise", exception |-> "Failed to connect to GitHub"]

-----------------------------------------------------------------------------
(* Bounds and input domains *)

MaxMatches == 6      \* largest match count handed to calculate_confidence
MaxFiles == 2        \* most file contents in one detect() call
MaxComponents == 2   \* most components in one DetectionResult
MaxPatterns == 2     \* most workflow patterns in one DetectionResult

TokenCounts == {0, 1000, 1500}
OutputCounts == {0, 300, 450}
ModelNames == {<<"gpt-4">>, <<"gpt-3.5-turbo">>, <<"claude-3-haiku">>, <<"foo-model">>}
\* target_model of a substitution requested by a client
TargetModels == {<<"gpt-3.5-turbo">>, <<"claude-3-haiku">>, <<"foo-model">>}
Descriptions == {<<>>, <<"Component: helper">>}

\* a calculation of exactly one dollar: 70 * 0.01 + 10 * 0.03
DollarCall ==
    [input_tokens |-> 70000, output_tokens |-> 10000,
     model |-> <<"gpt-4-turbo">>, description |-> <<>>]
HitRates == {15, 30}
ReductionRates == {20}

OptimizationCalls ==
    [optimization_type : {"model_substitution"},
     kwargs : [target_model : TargetModels, reason : {<<>>}]]
    \cup [optimization_type : {"caching"}, kwargs : [cache_hit_rate : HitRates]]
    \cup [optimization_type : {"token_reduction"}, kwargs : [reduction_rate : ReductionRates]]
    \cup [optimization_type : {"batch_processing"}, kwargs : {<<>>}]

MatchCounts ==
    [file_matches : 0..MaxMatches, code_matches : 0..MaxMatches,
     import_matches : 0..MaxMatches, config_matches : 0..MaxMatches]

\* how many file, code and import patterns each detector registers in
\* _setup_patterns: the deduplicated match lists are no longer than that
PatternLimits(framework) ==
    IF framework = "autogen"
    THEN [file_matches |-> 4, code_matches |-> 7, import_matches |-> 4]
    ELSE [file_matches |-> 5, code_matches |-> 10, import_matches |-> 12]

\* match-list lengths of a detect() run: nothing, one, or many of each kind
DetectCounts(framework) ==
    [file_matches   : {0, 1, Min(MaxMatches, PatternLimits(framework).file_matches)},
     code_matches   : {0, 1, Min(MaxMatches, PatternLimits(framework).code_matches)},
     import_matches : {0, 1, Min(MaxMatches, PatternLimits(framework).import_matches)},
     config_matches : {0, 1, MaxMatches}]

HelperName   == Text(<<"helper">>, 6)
ClassifyName == Text(<<"Classify", "_tickets">>, 16)
PlainMessage     == Text(<<"You are a helpful assistant.">>, 28)
SummarizeMessage == Text(<<"Summarize", " the attached report for the reader.">>, 2000)
ExtractMessage   == Text(<<"Please ", "extract", " the entities.">>, 27)
FormatTemplate   == Text(<<"format", " {record} as JSON">>, 23)

\* texts handed to the calculator's token estimate, and operation types: the
\* ones of the two tables, the default, and two that no table knows
EstimateTexts ==
    {Text(<<>>, 0), Text(<<"hello !">>, 7), PlainMessage,
     Text(<<"a prompt of four hundred characters">>, 400)}
OperationTypes ==
    {"general", "system_prompt", "code_generation", "summarization", "qa",
     "classification", "banana", ""}

\* component names and metadata handed to classify_task
CheckFormatName  == Text(<<"Check", "_", "format">>, 12)
AnswerWriterName == Text(<<"answer", "_", "write", "r">>, 13)
ClassifyNames == {HelperName, ClassifyName, CheckFormatName, AnswerWriterName}
ClassifyMetadata ==
    {<<>>,
     [system_message |-> Some(SummarizeMessage)],
     [system_message |-> None],
     [template |-> Some(FormatTemplate)],
     [system_message |-> Some(PlainMessage), template |-> Some(FormatTemplate)],
     [system_message |-> Some(ExtractMessage), template |-> Some(FormatTemplate)],
     [system_message |-> Some(PlainMessage), template |-> None]}
ClassifyComponents ==
    {Component(n, t, None, None, md) :
        n \in ClassifyNames, t \in {"agent", "chain"}, md \in ClassifyMetadata}

\* what a detector's detect() can do in analyze_repository: raise, or return
\* a result with one of these scores
DetectorScores == {0, 9, 10, 45, 100}
DetectorOutcomes ==
    {DetectorFailed}
      \cup {[DetectionResult(f) EXCEPT !.confidence_score = sc] :
                f \in Range(detectors), sc \in DetectorScores}

\* one component per task category, for optimize_workflow on a single component
CategoryNames ==
    {HelperName, ClassifyName,
     Text(<<"format", "_output">>, 13), Text(<<"validate", "_input">>, 14),
     Text(<<"extract", "_entities">>, 16), Text(<<"summarize", "_doc">>, 13),
     Text(<<"generate", "_report">>, 15), Text(<<"analyze", "_data">>, 12),
     Text(<<"answer", "_bot">>, 10)}
CategoryComponents ==
    {Component(n, t, m, e, <<>>) :
        n \in CategoryNames, t \in {"agent", "chain", "tool"},
        m \in {None, Some(<<"gpt-4">>), Some(<<"gpt-3.5-turbo">>),
               Some(<<"claude-3-opus">>)},
        e \in {None, Some(0), Some(2000)}}

\* the largest max_retries a caller passes (the default is 3)
MaxRetries == 3

\* agent constructor calls found by the syntax-tree walk
AutoGenNodes ==
    [agent_type : {"AssistantAgent"}, lineno : {3},
     name : {None, Some(ClassifyName)},
     system_message : {None, Some(PlainMessage), Some(SummarizeMessage), Some(ExtractMessage)},
     model : {None, Some(<<"gpt-4">>), Some(<<"foo-model">>)}]

\* calls found in a LangChain file, by the syntax-tree walk or by the fallback
LangChainNodes ==
    [parse : {"ast", "regex"}, func : {"LLMChain"}, lineno : {5}, var : {HelperName},
     model : {None}, template : {None}]
    \cup [parse : {"ast", "regex"}, func : {"ChatOpenAI"}, lineno : {5}, var : {ClassifyName},
          model : {None, Some(<<"gpt-4">>)}, template : {None}]
    \cup [parse : {"ast"}, func : {"PromptTemplate"}, lineno : {5}, var : {HelperName},
          model : {None}, template : {None, Some(FormatTemplate)}]
    \cup [parse : {"ast"}, func : {"Tool", "create_react_agent", "print"}, lineno : {5},
          var : {HelperName}, model : {None}, template : {None}]

\* components a client of the engine builds itself (metadata left at its default)
\* estimated_tokens is an Optional[int] nothing validates: absent, positive or
\* negative
CallerComponents ==
    {Component(n, t, m, e, <<>>) :
        n \in {HelperName, ClassifyName}, t \in {"agent", "tool"},
        m \in {None, Some(<<"gpt-4">>), Some(<<"gpt-3.5-turbo">>)},
        e \in {None, Some(1500), Some(-1000)}}

\* names of agents and chains, as components and as pattern endpoints
ResearcherName == Text(<<"researcher">>, 10)
WriterName     == Text(<<"writer">>, 6)
ManagerName    == Text(<<"manager">>, 7)

\* components as identify_parallel_opportunities reads them: name and type
FlowComponents ==
    {Component(n, t, None, None, <<>>) :
        n \in {ResearcherName, WriterName}, t \in {"agent", "chain"}}

\* entries of workflow_patterns: chat edges between named variables, a group
\* chat, a sequential chain (the 'file' entry is not read by the engine)
FlowPatterns ==
    {p \in [type : {"chat"},
            from : {ResearcherName, WriterName, ManagerName},
            to : {ResearcherName, WriterName, ManagerName}] : p.from # p.to}
    \cup {[type |-> "groupchat", agents_count |-> 2],
          [type |-> "sequential", chains |-> <<ResearcherName, WriterName>>]}

AutoGenContents == [config_list : BOOLEAN, terminate : BOOLEAN]
LangChainContents == [lcel : BOOLEAN, runnable : BOOLEAN, vector_store : BOOLEAN]

-----------------------------------------------------------------------------
(* State machine: the calculator *)

NothingYet ==
    /\ calc = None
    /\ derived = None
    /\ result = None
    /\ detection = None
    /\ workflow = None
    /\ raised = "none"
    /\ returned = None
    /\ last = [op |-> "init"]
    /\ analysis_cache = None
    /\ frame = None

CalcInit ==
    /\ NothingYet
    /\ input \in [input_tokens : TokenCounts, output_tokens : OutputCounts,
                  model : ModelNames, description : Descriptions]
                 \cup {DollarCall}

\* CostCalculator.calculate_cost called by a client
CalculateCost ==
    /\ last.op = "init"
    /\ calc' = calculate_cost(input.input_tokens, input.output_tokens,
                              input.model, input.description)
    /\ raised' = "none"
    /\ last' = [op |-> "calculate_cost"]
    /\ UNCHANGED <<analysis_cache, frame, returned, derived, result, detection, workflow, input>>

\* CostCalculator.apply_optimization called on the calculation just made
ApplyOptimization ==
    /\ last.op = "calculate_cost"
    /\ \E call \in OptimizationCalls :
        LET r == apply_optimization(calc, call.optimization_type, call.kwargs)
        IN  /\ derived' = r.calc
            /\ result' = r.result
            /\ raised' = r.raised
            /\ last' = [op |-> "apply_optimization",
                        optimization_type |-> call.optimization_type,
                        kwargs |-> call.kwargs]
            /\ UNCHANGED <<analysis_cache, frame, returned, calc, detection, workflow, input>>

CalcNext == CalculateCost \/ ApplyOptimization

CalcSpec == CalcInit /\ [][CalcNext]_vars

-----------------------------------------------------------------------------
(* State machine: the detectors' confidence *)

\* import and code-pattern matches come from file contents
CountsFit(counts, contents) ==
    contents = <<>> => counts.code_matches = 0 /\ counts.import_matches = 0

DetectInit ==
    /\ NothingYet
    /\ \/ input \in [call : {"calculate_confidence"}, counts : MatchCounts]
       \/ /\ input \in [call : {"detect"}, framework : {"autogen"}, counts : DetectCounts("autogen"),
                        contents : SeqsUpTo(AutoGenContents, MaxFiles)]
          /\ CountsFit(input.counts, input.contents)
       \/ /\ input \in [call : {"detect"}, framework : {"langchain"}, counts : DetectCounts("langchain"),
                        contents : SeqsUpTo(LangChainContents, MaxFiles)]
          /\ CountsFit(input.counts, input.contents)

Scored(n) ==
    LET c == calculate_confidence(n.file_matches, n.code_matches,
                                  n.import_matches, n.config_matches)
    IN  [DetectionResult("base") EXCEPT !.confidence = c.confidence,
                                        !.confidence_score = c.confidence_score]

\* BaseDetector.calculate_confidence called with the supplied counts
CalculateConfidence ==
    /\ last.op = "init"
    /\ input.call = "calculate_confidence"
    /\ detection' = Scored(input.counts)
    /\ last' = [op |-> "calculate_confidence", counts |-> input.counts, previous |-> None]
    /\ UNCHANGED <<analysis_cache, frame, returned, calc, derived, result, workflow, raised, input>>

\* calculate_confidence called again after one more match of one kind was found
OneMoreMatch ==
    /\ last.op = "calculate_confidence"
    /\ last.previous = None
    /\ \E kind \in {"file_matches", "code_matches", "import_matches", "config_matches"} :
        LET n == [last.counts EXCEPT ![kind] = @ + 1]
        IN  /\ detection' = Scored(n)
            /\ last' = [op |-> "calculate_confidence", counts |-> n,
                        previous |-> [confidence |-> detection.confidence,
                                      confidence_score |-> detection.confidence_score]]
    /\ UNCHANGED <<analysis_cache, frame, returned, calc, derived, result, workflow, raised, input>>

AutoGenDetect ==
    /\ last.op = "init"
    /\ input.call = "detect"
    /\ input.framework = "autogen"
    /\ detection' = AutoGenDetectResult(input.counts, input.contents)
    /\ last' = [op |-> "detect"]
    /\ UNCHANGED <<analysis_cache, frame, returned, calc, derived, result, workflow, raised, input>>

LangChainDetect ==
    /\ last.op = "init"
    /\ input.call = "detect"
    /\ input.framework = "langchain"
    /\ detection' = LangChainDetectResult(input.counts, input.contents)
    /\ last' = [op |-> "detect"]
    /\ UNCHANGED <<analysis_cache, frame, returned, calc, derived, result, workflow, raised, input>>

DetectNext == CalculateConfidence \/ OneMoreMatch \/ AutoGenDetect \/ LangChainDetect

DetectSpec == DetectInit /\ [][DetectNext]_vars

-----------------------------------------------------------------------------
(* State machine: extraction and optimization *)

Init ==
    /\ NothingYet
    /\ \/ input \in [origin : {"autogen"}, nodes : SeqsUpTo(AutoGenNodes, MaxComponents)]
       \/ input \in [origin : {"langchain"}, nodes : SeqsUpTo(LangChainNodes, MaxComponents)]
       \/ input \in [origin : {"caller"}, components : SeqsUpTo(CallerComponents, MaxComponents)]

\* AutoGenDetector.extract_components over the agent calls of the files
AutoGenExtract ==
    /\ last.op = "init"
    /\ input.origin = "autogen"
    /\ detection' = [DetectionResult("autogen") EXCEPT
            !.components = [i \in DOMAIN input.nodes |-> _extract_agent_info(input.nodes[i])]]
    /\ last' = [op |-> "extract_components"]
    /\ UNCHANGED <<analysis_cache, frame, returned, calc, derived, result, workflow, raised, input>>

\* LangChainDetector.extract_components over the calls of the files
LangChainExtract ==
    /\ last.op = "init"
    /\ input.origin = "langchain"
    /\ LET found == [i \in DOMAIN input.nodes |->
                        IF input.nodes[i].parse = "ast"
                        THEN _extract_component_from_call(input.nodes[i])
                        ELSE _regex_extract_component(input.nodes[i])]
       IN  detection' = [DetectionResult("langchain") EXCEPT
                !.components = Flatten([i \in DOMAIN found |->
                                    IF found[i] = None THEN <<>> ELSE <<found[i]>>], 1)]
    /\ last' = [op |-> "extract_components"]
    /\ UNCHANGED <<analysis_cache, frame, returned, calc, derived, result, workflow, raised, input>>

\* a client constructs the DetectionResult itself
CallerBuilds ==
    /\ last.op = "init"
    /\ input.origin = "caller"
    /\ detection' = [DetectionResult("custom") EXCEPT !.components = input.components]
    /\ last' = [op |-> "DetectionResult"]
    /\ UNCHANGED <<analysis_cache, frame, returned, calc, derived, result, workflow, raised, input>>

\* OptimizationEngine.optimize_workflow(detection_result)
OptimizeWorkflow ==
    /\ last.op \in {"extract_components", "DetectionResult"}
    /\ LET r == optimize_workflow(detection)
       IN  /\ detection' = [detection EXCEPT !.components = r.components]
           /\ workflow' = r.workflow
           /\ raised' = r.raised
    /\ last' = [op |-> "optimize_workflow"]
    /\ UNCHANGED <<analysis_cache, frame, returned, calc, derived, result, input>>

Next == AutoGenExtract \/ LangChainExtract \/ CallerBuilds \/ OptimizeWorkflow

Spec == Init /\ [][Next]_vars

-----------------------------------------------------------------------------
(* State machine: the engine's helper functions, called on their own *)

HelperInit ==
    /\ NothingYet
    /\ input \in [call : {"identify_parallel_opportunities"},
                  components : SeqsUpTo(FlowComponents, MaxComponents),
                  workflow_patterns : SeqsUpTo(FlowPatterns, MaxPatterns)]
               \cup [call : {"estimate_tokens"}, text : EstimateTexts,
                     operation_type : OperationTypes]
               \cup [call : {"classify_task"}, component : ClassifyComponents]
               \cup [call : {"optimize_workflow"},
                     detection_result :
                        {[DetectionResult("autogen") EXCEPT !.components = <<c>>] :
                            c \in CategoryComponents}]

\* OptimizationEngine.identify_parallel_opportunities(components, workflow_patterns)
IdentifyParallel ==
    /\ last.op = "init"
    /\ input.call = "identify_parallel_opportunities"
    /\ returned' = identify_parallel_opportunities(input.components, input.workflow_patterns)
    /\ last' = [op |-> "identify_parallel_opportunities"]
    /\ UNCHANGED <<analysis_cache, frame, calc, derived, result, detection, workflow, raised, input>>

\* CostCalculator.estimate_tokens(text, operation_type)
EstimateTokens ==
    /\ last.op = "init"
    /\ input.call = "estimate_tokens"
    /\ returned' = CostCalculator_estimate_tokens(input.text, input.operation_type)
    /\ last' = [op |-> "estimate_tokens"]
    /\ UNCHANGED <<analysis_cache, frame, calc, derived, result, detection, workflow, raised, input>>

\* OptimizationEngine.classify_task(component)
ClassifyTask ==
    /\ last.op = "init"
    /\ input.call = "classify_task"
    /\ \E r \in {classify_task(input.component)} :
          /\ returned' = (IF r.raised = "none" THEN Some(r.task_type) ELSE None)
          /\ raised' = r.raised
    /\ last' = [op |-> "classify_task"]
    /\ UNCHANGED <<analysis_cache, frame, calc, derived, result, detection, workflow, input>>

\* OptimizationEngine.optimize_workflow on a result with a single component
OptimizeSingle ==
    /\ last.op = "init"
    /\ input.call = "optimize_workflow"
    /\ \E r \in {optimize_workflow(input.detection_result)} :
          /\ detection' = [input.detection_result EXCEPT !.components = r.components]
          /\ workflow' = r.workflow
          /\ raised' = r.raised
    /\ last' = [op |-> "optimize_workflow"]
    /\ UNCHANGED <<analysis_cache, frame, calc, derived, result, returned, input>>

HelperNext ==
    \/ IdentifyParallel
    \/ EstimateTokens
    \/ ClassifyTask
    \/ OptimizeSingle

HelperSpec == HelperInit /\ [][HelperNext]_vars

-----------------------------------------------------------------------------
(* State machine: one request to analyze_repository *)

AnalyzeInit ==
    /\ NothingYet
    /\ input \in [call : {"analyze_repository"},
                  fetch : {"returns", "raises"},
                  outcomes : [DOMAIN detectors -> DetectorOutcomes],
                  optimize : {"returns", "raises"},
                  report : {"returns", "raises"}]

\* the request arrives: the cache entry is created
StartAnalysis ==
    /\ last.op = "init"
    /\ analysis_cache = None
    /\ analysis_cache' = [status |-> "processing", progress |-> 0, error |-> None,
                          result |-> None]
    /\ frame' = [pc |-> "fetch", detector |-> 1, best_result |-> None,
                 best_score |-> 0, optimizer_calls |-> 0, http |-> None]
    /\ last' = [op |-> "analyze_repository"]
    /\ UNCHANGED <<calc, derived, result, detection, workflow, raised, returned, input>>

\* the handler ends with an HTTPException
Abort(http, error) ==
    /\ analysis_cache' = Fail(analysis_cache, error)
    /\ frame' = [frame EXCEPT !.pc = "done", !.http = http]
    /\ raised' = "HTTPException"

\* Step 1: fetch the repository content
FetchRepository ==
    /\ frame # None /\ frame.pc = "fetch"
    /\ IF analysis_cache = None
       THEN \* the entry was deleted during the await: analysis_cache[analysis_id]
            \* raises KeyError at line 155, or in `except HTTPException` at 255
            \* when the fetch failed, and again in `except Exception` at 261
            /\ raised' = "KeyError"
            /\ frame' = [frame EXCEPT !.pc = "done"]
            /\ UNCHANGED analysis_cache
       ELSE IF input.fetch = "raises"
       THEN Abort(HTTPException(400, "Failed to fetch repository"), "Analysis failed")
       ELSE /\ analysis_cache' = [analysis_cache EXCEPT !.progress = 20]
            /\ frame' = [frame EXCEPT !.pc = "detect"]
            /\ UNCHANGED raised
    /\ UNCHANGED <<calc, derived, result, detection, workflow, returned, input, last>>

\* Step 2, one turn of the loop over the detectors
RunDetector ==
    /\ frame # None /\ frame.pc = "detect"
    /\ frame.detector <= Len(detectors)
    /\ \E res \in {input.outcomes[frame.detector]} :
          frame' = IF res # DetectorFailed /\ res.confidence_score > frame.best_score
                   THEN [frame EXCEPT !.detector = @ + 1, !.best_result = res,
                                      !.best_score = res.confidence_score]
                   ELSE [frame EXCEPT !.detector = @ + 1]
    /\ UNCHANGED <<calc, derived, result, detection, workflow, raised, returned,
                   input, last, analysis_cache>>

\* Step 2, after the loop: abort or go on with the best result
SelectFramework ==
    /\ frame # None /\ frame.pc = "detect"
    /\ frame.detector > Len(detectors)
    /\ IF NoFrameworkDetected(frame.best_result, frame.best_score)
       THEN /\ Abort(HTTPException(400, NoFrameworkDetail), "Analysis failed")
            /\ UNCHANGED detection
       ELSE /\ analysis_cache' = [analysis_cache EXCEPT !.progress = 40]
            /\ frame' = [frame EXCEPT !.pc = "optimize"]
            /\ detection' = frame.best_result
            /\ UNCHANGED raised
    /\ UNCHANGED <<calc, derived, result, workflow, returned, input, last>>

\* Step 3: optimizer.optimize_workflow(best_result)
InvokeOptimizer ==
    /\ frame # None /\ frame.pc = "optimize"
    /\ IF input.optimize = "raises"
       THEN /\ analysis_cache' = Fail(analysis_cache, "AttributeError")
            /\ frame' = [frame EXCEPT !.pc = "done", !.optimizer_calls = @ + 1,
                                      !.http = HTTPException(500, "Analysis failed")]
            /\ raised' = "HTTPException"
       ELSE /\ analysis_cache' = [analysis_cache EXCEPT !.progress = 70]
            /\ frame' = [frame EXCEPT !.pc = "report", !.optimizer_calls = @ + 1]
            /\ UNCHANGED raised
    /\ UNCHANGED <<calc, derived, result, detection, workflow, returned, input, last>>

\* Steps 4 and 5: the reports, the response and the completed status
GenerateReports ==
    /\ frame # None /\ frame.pc = "report"
    /\ IF input.report = "raises"
       THEN /\ Abort(HTTPException(500, "Analysis failed"), "OSError")
            /\ UNCHANGED returned
       ELSE /\ \E response \in {[framework |-> frame.best_result.framework,
                                  confidence_score |-> frame.best_result.confidence_score]} :
                  /\ analysis_cache' = [analysis_cache EXCEPT !.status = "completed",
                                                              !.progress = 100,
                                                              !.result = Some(response)]
                  /\ returned' = Some(response)
            /\ frame' = [frame EXCEPT !.pc = "done"]
            /\ UNCHANGED raised
    /\ UNCHANGED <<calc, derived, result, detection, workflow, input, last>>

AnalyzeNext ==
    \/ StartAnalysis
    \/ FetchRepository
    \/ RunDetector
    \/ SelectFramework
    \/ InvokeOptimizer
    \/ GenerateReports

AnalyzeSpec == AnalyzeInit /\ [][AnalyzeNext]_vars

-----------------------------------------------------------------------------
(* State machine: the request among the requests of other clients *)

\* analyze_repository gives control to other requests only at its one await,
\* the fetch of the repository, and once it has ended
Suspended == frame # None /\ frame.pc \in {"fetch", "done"}

\* list_analyses(): the ids in the cache with status and progress
ListAnalyses ==
    /\ Suspended
    /\ last' = [op |-> "list_analyses",
                analyses |-> IF analysis_cache = None THEN <<>>
                             ELSE <<[status |-> analysis_cache.status,
                                     progress |-> analysis_cache.progress]>>]
    /\ last' # last
    /\ UNCHANGED <<calc, derived, result, detection, workflow, raised, returned,
                   input, analysis_cache, frame>>

\* the client knows the analysis id: from the listing, or from the response
KnowsId ==
    \/ last.op \in {"list_analyses"} /\ last.analyses # <<>>
    \/ last.op \in {"get_analysis_report", "delete_analysis"}
    \/ returned # None

\* delete_analysis(analysis_id)
DeleteAnalysis ==
    /\ Suspended
    /\ KnowsId
    /\ last.op # "delete_analysis"
    /\ IF analysis_cache = None
       THEN /\ last' = [op |-> "delete_analysis", status_code |-> 404]
            /\ UNCHANGED analysis_cache
       ELSE /\ last' = [op |-> "delete_analysis", status_code |-> 200]
            /\ analysis_cache' = None
    /\ UNCHANGED <<calc, derived, result, detection, workflow, raised, returned,
                   input, frame>>

\* get_analysis_report(analysis_id, format='json')
GetAnalysisReport ==
    /\ Suspended
    /\ KnowsId
    /\ last.op # "get_analysis_report"
    /\ last' = [op |-> "get_analysis_report",
                status_code |-> IF analysis_cache = None THEN 404
                                ELSE IF analysis_cache.status # "completed" THEN 400
                                ELSE IF analysis_cache.result = None THEN 404
                                ELSE 200]
    /\ UNCHANGED <<calc, derived, result, detection, workflow, raised, returned,
                   input, analysis_cache, frame>>

ServeNext ==
    \/ StartAnalysis
    \/ FetchRepository
    \/ RunDetector
    \/ SelectFramework
    \/ InvokeOptimizer
    \/ GenerateReports
    \/ ListAnalyses
    \/ DeleteAnalysis
    \/ GetAnalysisReport

ServeSpec == AnalyzeInit /\ [][ServeNext]_vars

-----------------------------------------------------------------------------
(* State machine: one call of _fetch_with_retry *)

FetchInit ==
    /\ NothingYet
    /\ \E max_retries \in 0..MaxRetries :
          input \in [call : {"_fetch_with_retry"}, max_retries : {max_retries},
                     outcomes : [1..(max_retries + 1) -> Outcomes]]

\* the call is made: headers are built and the loop is entered
FetchCalled ==
    /\ last.op = "init"
    /\ frame = None
    /\ frame' = [pc |-> "loop", attempt |-> 0, requests |-> 0, slept |-> 0]
    /\ last' = [op |-> "_fetch_with_retry"]
    /\ UNCHANGED <<calc, derived, result, detection, workflow, raised, returned,
                   input, analysis_cache>>

\* one turn of `for attempt in range(max_retries + 1)`: the GET and what follows
FetchAttempt ==
    /\ frame # None /\ frame.pc = "loop"
    /\ frame.attempt <= input.max_retries
    /\ \E outcome \in {input.outcomes[frame.attempt + 1]} :
       \E end \in {AttemptEnds(outcome, frame.attempt, input.max_retries)} :
          /\ frame' = [frame EXCEPT
                          !.requests = @ + 1,
                          !.attempt = IF end.do \in {"sleep", "next"} THEN @ + 1 ELSE @,
                          !.slept = IF end.do = "sleep" THEN @ + end.seconds ELSE @,
                          !.pc = IF end.do \in {"return", "raise"} THEN "done" ELSE @]
          /\ returned' = IF end.do = "return" THEN Some([json_of |-> frame.attempt + 1])
                         ELSE returned
          /\ raised' = IF end.do = "raise" THEN end.exception ELSE raised
    /\ UNCHANGED <<calc, derived, result, detection, workflow, input, last,
                   analysis_cache>>

\* the loop ran out: raise Exception("Maximum retries exceeded")
RetriesExhausted ==
    /\ frame # None /\ frame.pc = "loop"
    /\ frame.attempt > input.max_retries
    /\ frame' = [frame EXCEPT !.pc = "done"]
    /\ raised' = "Maximum retries exceeded"
    /\ UNCHANGED <<calc, derived, result, detection, workflow, returned, input, last,
                   analysis_cache>>

FetchNext ==
    \/ FetchCalled
    \/ FetchAttempt
    \/ RetriesExhausted

\* every GET comes to a response or to an exception within its timeout, and
\* every sleep ends: a step that can be taken is taken
FetchSpec == FetchInit /\ [][FetchNext]_vars /\ WF_vars(FetchNext)

-----------------------------------------------------------------------------
(* Properties of the calculator, checked under CalcSpec *)

\* the arithmetic of one CostCalculation record, on that record's own fields
ArithmeticOk(c) ==
    /\ c.total_cost = c.input_cost + c.output_cost
    /\ c.input_cost = TokenCost(c.input_tokens, c.input_price_per_1k)
    /\ c.output_cost = TokenCost(c.output_tokens, c.output_price_per_1k)

\* C2: every CostCalculation record, made by calculate_cost or derived by
\* apply_optimization (model_substitution, caching, token_reduction), has
\* total_cost = input_cost + output_cost, input_cost = (input_tokens/1000) *
\* input_price_per_1k and output_cost = (output_tokens/1000) * output_price_per_1k
C2_RecordArithmetic ==
    /\ calc # None => ArithmeticOk(calc)
    /\ derived # None => ArithmeticOk(derived)

\* C2: a record derived by caching whose costs are not its tokens times its prices
C2_CachedRecordOff ==
    /\ last.op = "apply_optimization"
    /\ last.optimization_type = "caching"
    /\ derived # None
    /\ derived.total_cost = derived.input_cost + derived.output_cost
    /\ derived.input_cost # TokenCost(derived.input_tokens, derived.input_price_per_1k)

\* C4: on an original calculation with total_cost = 0, apply_optimization with
\* model_substitution, caching or token_reduction returns a result whose
\* savings_percent is 0 and raises no arithmetic fault
C4_ZeroCostYieldsZeroPercent ==
    (/\ last.op = "apply_optimization"
     /\ calc.total_cost = 0
     /\ last.optimization_type \in {"model_substitution", "caching", "token_reduction"})
    => (raised = "none" /\ result # None /\ result.savings_percent.num = 0)

\* C4: the division by the zero total_cost, reached
C4_ZeroCostDivides ==
    /\ last.op = "apply_optimization"
    /\ calc.total_cost = 0
    /\ last.optimization_type \in {"caching", "token_reduction"}
    /\ raised = "ZeroDivisionError"
    /\ result = None

\* the model string shows both the id that was asked for and the fallback model
Annotated(model, id) == Contains(model, id) /\ Contains(model, DefaultModel)

\* the record carries the default model's prices
DefaultPriced(c) ==
    /\ c.input_price_per_1k = model_pricing[DefaultModel].input_cost_per_1k
    /\ c.output_price_per_1k = model_pricing[DefaultModel].output_cost_per_1k

\* the record shows both names, in its model field or in its description
Visible(c, id) == Annotated(c.model, id) \/ Annotated(c.description, id)

-----------------------------------------------------------------------------
(* Properties of the confidence scoring, checked under DetectSpec *)

\* the tier the thresholds assign to a score
TierOf(score) ==
    IF score >= 75 THEN "HIGH"
    ELSE IF score >= 40 THEN "MEDIUM"
    ELSE IF score >= 10 THEN "LOW"
    ELSE "NONE"

\* the order of the tiers
ConfidenceRank(confidence) ==
    CASE confidence = "HIGH" -> 3 [] confidence = "MEDIUM" -> 2
      [] confidence = "LOW" -> 1 [] OTHER -> 0

ExpectedScore(n) ==
    (IF n.config_matches > 0 THEN 40 ELSE 0)
      + (IF n.import_matches > 0 THEN 35 ELSE 0)
      + Min(20, 5 * n.code_matches)
      + Min(5, n.file_matches)

\* C6: for non-negative counts calculate_confidence returns the score
\* 40 [config_matches > 0] + 35 [import_matches > 0] + min(20, 5 * code_matches)
\* + min(5, file_matches) capped at 100, and the tier HIGH from 75, MEDIUM from
\* 40, LOW from 10, NONE below; 75, 40 and 10 are HIGH, MEDIUM and LOW, 9 is NONE
C6_ConfidenceFormula ==
    last.op = "calculate_confidence" =>
        /\ detection.confidence_score = Min(100, ExpectedScore(last.counts))
        /\ detection.confidence = TierOf(ExpectedScore(last.counts))
        /\ detection.confidence_score = 75 => detection.confidence = "HIGH"
        /\ detection.confidence_score = 40 => detection.confidence = "MEDIUM"
        /\ detection.confidence_score = 10 => detection.confidence = "LOW"
        /\ detection.confidence_score = 9 => detection.confidence = "NONE"

\* C6: a score of exactly 75, from a config file and an import alone
C6_ExactlySeventyFive ==
    /\ last.op = "calculate_confidence"
    /\ last.counts.code_matches = 0
    /\ last.counts.file_matches = 0
    /\ detection.confidence_score = 75
    /\ detection.confidence = "HIGH"

\* C7: raising any one of the four counts by one, the others fixed, lowers
\* neither the confidence_score nor the tier calculate_confidence returns
C7_OneMoreNeverLowers ==
    (last.op = "calculate_confidence" /\ last.previous # None) =>
        /\ detection.confidence_score >= last.previous.confidence_score
        /\ ConfidenceRank(detection.confidence) >= ConfidenceRank(last.previous.confidence)

\* C7: one more match that raised both the score and the tier
C7_OneMoreRaised ==
    /\ last.op = "calculate_confidence"
    /\ last.previous # None
    /\ detection.confidence_score > last.previous.confidence_score
    /\ ConfidenceRank(detection.confidence) > ConfidenceRank(last.previous.confidence)

BaseConfidence ==
    calculate_confidence(input.counts.file_matches, input.counts.code_matches,
                         input.counts.import_matches, input.counts.config_matches)

\* C9: in the result of either detect() override the final confidence_score is
\* not below the base pipeline's score, and the final tier is the tier the
\* thresholds assign to the final confidence_score
C9_FinalTierFollowsFinalScore ==
    last.op = "detect" =>
        /\ detection.confidence_score >= BaseConfidence.confidence_score
        /\ detection.confidence = TierOf(detection.confidence_score)

\* C9: the bonuses lifted the result into a tier above the base pipeline's
C9_BonusLiftsTier ==
    /\ last.op = "detect"
    /\ detection.confidence_score > BaseConfidence.confidence_score
    /\ ConfidenceRank(detection.confidence) > ConfidenceRank(BaseConfidence.confidence)

-----------------------------------------------------------------------------
(* Properties of optimize_workflow, checked under Spec *)

\* C1: optimize_workflow returns an OptimizedWorkflow, and propagates no
\* exception, for every DetectionResult a detector can produce
C1_OptimizeWorkflowReturns ==
    last.op = "optimize_workflow" => (raised = "none" /\ workflow # None)

\* C1: the AttributeError of classify_task leaves optimize_workflow, on
\* components an extractor produced
C1_AttributeErrorPropagates ==
    /\ last.op = "optimize_workflow"
    /\ input.origin \in {"autogen", "langchain"}
    /\ raised = "AttributeError"
    /\ workflow = None

SavingsOk(r) == r.savings = r.original_cost - r.optimized_cost

\* C3: every entry of OptimizedWorkflow.optimization_results has
\* savings = original_cost - optimized_cost, an entry that combines several
\* accepted steps of one component included
C3_SavingsIsDifference ==
    workflow # None =>
        \A i \in DOMAIN workflow.optimization_results :
            SavingsOk(workflow.optimization_results[i])

\* C3: an entry combining a substitution with a later accepted step, whose
\* savings is not the difference of its two costs
C3_CombinedEntryOff ==
    /\ workflow # None
    /\ \E i \in DOMAIN workflow.optimization_results :
        /\ workflow.optimization_results[i].optimization_type = "model_substitution"
        /\ Contains(workflow.optimization_results[i].explanation, " + ")
        /\ ~SavingsOk(workflow.optimization_results[i])

\* the calculation went through _apply_model_substitution
Substituted(c) == Contains(c.description, " (optimized with ")

\* the cost of the original tokens at the prices of the optimized calculation
SubstitutedCost(original, optimized) ==
    TokenCost(original.input_tokens, optimized.input_price_per_1k)
      + TokenCost(original.output_tokens, optimized.output_price_per_1k)

\* C5: a component's optimized calculation carries a model substitution only
\* if the substituted calculation costs strictly less than the component's
\* original one, and Smart Model Routing is among strategies_applied only if
\* some component carries such a substitution
C5_SubstitutionOnlyIfCheaper ==
    workflow # None =>
        /\ \A i \in DOMAIN workflow.optimized_calculations :
              Substituted(workflow.optimized_calculations[i]) =>
                  SubstitutedCost(workflow.original_calculations[i],
                                  workflow.optimized_calculations[i])
                    < workflow.original_calculations[i].total_cost
        /\ strategies[1] \in Range(workflow.strategies_applied) =>
              \E i \in DOMAIN workflow.optimized_calculations :
                  Substituted(workflow.optimized_calculations[i])

\* C5: a substitution was suggested for a component, did not come out cheaper,
\* and is absent from the optimized calculation and from strategies_applied
C5_DearerSubstitutionDropped ==
    /\ last.op = "optimize_workflow"
    /\ workflow # None
    /\ strategies[1] \notin Range(workflow.strategies_applied)
    /\ \E i \in DOMAIN detection.components :
        /\ suggest_model_substitution(detection.components[i],
               classify_task(detection.components[i]).task_type) # None
        /\ ~Substituted(workflow.optimized_calculations[i])

\* the run was on one component: an agent on gpt-4 with 1500 estimated tokens
\* whose name contains 'classify'
OneClassifyAgent ==
    /\ last.op = "optimize_workflow"
    /\ Len(detection.components) = 1
    /\ detection.components[1].type = "agent"
    /\ detection.components[1].model = Some(<<"gpt-4">>)
    /\ detection.components[1].estimated_tokens = Some(1500)
    /\ Contains(Lower(detection.components[1].name.fragments), "classify")

\* C11: on that one component optimize_workflow returns, classifies the
\* component as classification, puts it on a model that is cheaper per token
\* for input and for output, reports total_optimized_cost < total_original_cost
\* and lists Smart Model Routing in strategies_applied
C11_ClassifyAgentIsRouted ==
    OneClassifyAgent =>
        /\ raised = "none"
        /\ workflow # None
        /\ workflow.cache_opportunities[1].task_type = "classification"
        /\ Substituted(workflow.optimized_calculations[1])
        /\ ~Contains(workflow.optimized_calculations[1].model, "gpt-4")
        /\ workflow.optimized_calculations[1].input_price_per_1k
              < workflow.original_calculations[1].input_price_per_1k
        /\ workflow.optimized_calculations[1].output_price_per_1k
              < workflow.original_calculations[1].output_price_per_1k
        /\ workflow.total_optimized_cost < workflow.total_original_cost
        /\ strategies[1] \in Range(workflow.strategies_applied)

\* C11: the scenario, run on an agent the AutoGen extractor found
C11_ClassifyAgentOptimized ==
    /\ OneClassifyAgent
    /\ input.origin = "autogen"
    /\ workflow # None
    /\ workflow.optimized_calculations[1].model = <<"claude-3-haiku">>

-----------------------------------------------------------------------------
(* Further properties of the calculator, checked under CalcSpec *)

\* apply_optimization of the given type has returned
Applied(type) ==
    /\ last.op = "apply_optimization"
    /\ last.optimization_type = type
    /\ raised = "none"

\* k is n * (100 - pct) / 100 truncated, for n >= 0
ScaledDown(k, n, pct) == 100 * k <= n * (100 - pct) /\ n * (100 - pct) < 100 * (k + 1)

\* C12: what apply_optimization returns for caching at hit rate h has optimized
\* cost (1-h) * original total_cost + h * 0.0001 and savings = original
\* total_cost - optimized cost, and the derived record's token counts are the
\* original counts times (1-h), truncated; one dollar at h = 0.15 gives
\* 0.850015 and savings 0.149985 (0.0001 dollar is 200000 money units)
C12_CachingNumbers ==
    Applied("caching") =>
        /\ calc.total_cost % 100 = 0
        /\ result.optimized_cost - last.kwargs.cache_hit_rate * 2000
              = (100 - last.kwargs.cache_hit_rate) * (calc.total_cost \div 100)
        /\ derived.total_cost = result.optimized_cost
        /\ result.original_cost = calc.total_cost
        /\ result.savings = calc.total_cost - result.optimized_cost
        /\ ScaledDown(derived.input_tokens, calc.input_tokens, last.kwargs.cache_hit_rate)
        /\ ScaledDown(derived.output_tokens, calc.output_tokens, last.kwargs.cache_hit_rate)
        /\ (calc.total_cost = 2000000000 /\ last.kwargs.cache_hit_rate = 15) =>
              (result.optimized_cost = 1700030000 /\ result.savings = 299970000)

\* C12: the one-dollar scenario at hit rate 0.15
C12_DollarCached ==
    /\ Applied("caching")
    /\ calc.total_cost = 2000000000
    /\ last.kwargs.cache_hit_rate = 15
    /\ result.optimized_cost = 1700030000
    /\ derived.input_tokens = 59500
    /\ derived.output_tokens = 8500

\* C15: apply_optimization with a type other than model_substitution, caching
\* and token_reduction never raises and is the identity: it returns the
\* original CostCalculation unchanged, with a result whose optimized_cost is
\* the original_cost and whose savings and savings_percent are 0
C15_UnknownTypeIsIdentity ==
    (/\ last.op = "apply_optimization"
     /\ last.optimization_type \notin {"model_substitution", "caching", "token_reduction"})
    => /\ raised = "none"
       /\ derived = calc
       /\ result # None
       /\ result.original_cost = calc.total_cost
       /\ result.optimized_cost = result.original_cost
       /\ result.savings = 0
       /\ result.savings_percent.num = 0

\* C15: an unknown type applied to a calculation that costs something
C15_UnknownTypeApplied ==
    /\ last.op = "apply_optimization"
    /\ last.optimization_type = "batch_processing"
    /\ calc.total_cost > 0
    /\ derived = calc
    /\ result.optimization_type = "none"

-----------------------------------------------------------------------------
(* Further properties of optimize_workflow, checked under Spec *)

\* C16: after a full optimize_workflow run, whatever steps were accepted,
\* every entry of original_calculations is field for field the record
\* calculate_cost made for the component's baseline, and total_original_cost is
\* the sum over those entries: the steps produce new records only
C16_OriginalsUntouched ==
    workflow # None =>
        /\ \A i \in DOMAIN workflow.original_calculations :
              workflow.original_calculations[i] = Baseline(detection.components[i])
        /\ workflow.total_original_cost = SumCost(workflow.original_calculations, 1)

\* C16: a component whose baseline record went through an accepted step while
\* it was still the chain's best calculation, and is as it was
C16_OriginalKeptAfterSteps ==
    /\ workflow # None
    /\ \E i \in DOMAIN workflow.original_calculations :
        /\ ~Substituted(workflow.optimized_calculations[i])
        /\ workflow.optimized_calculations[i].total_cost
              < workflow.original_calculations[i].total_cost
        /\ workflow.original_calculations[i] = Baseline(detection.components[i])

\* C13: on a DetectionResult with no components optimize_workflow returns
\* without raising, with total_original_cost = 0, total_optimized_cost = 0,
\* savings_percentage = 0 and empty recommendations, optimization_results and
\* strategies_applied
C13_EmptyInputYieldsEmptyWorkflow ==
    (last.op = "optimize_workflow" /\ detection.components = <<>>) =>
        /\ raised = "none"
        /\ workflow # None
        /\ workflow.total_original_cost = 0
        /\ workflow.total_optimized_cost = 0
        /\ workflow.savings_percentage.num = 0
        /\ workflow.recommendations = <<>>
        /\ workflow.optimization_results = <<>>
        /\ workflow.strategies_applied = <<>>

\* C13: the run on the empty list an extractor returns for a file whose calls
\* are none of the known constructors
C13_NothingExtractedOptimized ==
    /\ last.op = "optimize_workflow"
    /\ input.origin = "langchain"
    /\ input.nodes # <<>>
    /\ detection.components = <<>>
    /\ workflow # None
    /\ workflow.recommendations = <<>>

\* one step of the chain: either nothing was kept and the best calculation is
\* the one before, or one strategy was noted and the cost went strictly down
StepKept(before, after) ==
    IF after.applied = before.applied
    THEN after.best_calc = before.best_calc
    ELSE /\ Len(after.applied) = Len(before.applied) + 1
         /\ after.best_calc.total_cost < before.best_calc.total_cost

\* C20: for every component the steps are tried in the order model
\* substitution, caching, token reduction, each on the best calculation kept so
\* far, and a step is kept only if it strictly lowers total_cost; so
\* optimized_calculations[i].total_cost <= original_calculations[i].total_cost,
\* with equality exactly when no step was kept, and
\* total_optimized_cost <= total_original_cost
C20_GreedyChain ==
    workflow # None =>
        /\ \A i \in DOMAIN detection.components :
            \E ct \in {classify_task(detection.components[i]).task_type} :
            \E c0 \in {Chain(workflow.original_calculations[i], None, <<>>, "none")} :
            \E c1 \in {SubstitutionStep(c0, detection.components[i], ct)} :
            \E c2 \in {CachingStep(c1, detection.components[i], ct)} :
            \E c3 \in {TokenReductionStep(c2, ct)} :
                /\ StepKept(c0, c1) /\ StepKept(c1, c2) /\ StepKept(c2, c3)
                /\ workflow.optimized_calculations[i] = c3.best_calc
                /\ workflow.optimized_calculations[i].total_cost
                      <= workflow.original_calculations[i].total_cost
                /\ (workflow.optimized_calculations[i].total_cost
                      = workflow.original_calculations[i].total_cost)
                      <=> (c3.applied = <<>>)
        /\ workflow.total_optimized_cost <= workflow.total_original_cost

\* C20: two steps were kept in the run, one component costs less than before,
\* and another one, whose cost is negative, kept no step and costs the same
C20_KeptAndRejected ==
    /\ workflow # None
    /\ Len(workflow.strategies_applied) >= 2
    /\ \E i, j \in DOMAIN workflow.optimized_calculations :
        /\ workflow.optimized_calculations[i].total_cost
              < workflow.original_calculations[i].total_cost
        /\ workflow.optimized_calculations[j] = workflow.original_calculations[j]
        /\ workflow.original_calculations[j].total_cost < 0

\* C22: cache_opportunities has exactly one entry per component, in component
\* order, with that component's potential tier and estimated hit rate, whatever
\* its task category and whether or not caching was applied to it
C22_OneEntryPerComponent ==
    workflow # None =>
        /\ Len(workflow.cache_opportunities) = Len(detection.components)
        /\ \A i \in DOMAIN workflow.cache_opportunities :
              /\ workflow.cache_opportunities[i].component = detection.components[i].name
              /\ workflow.cache_opportunities[i].cache_potential \in {"high", "medium", "low"}

\* C22: a run on components of the category 'general' only, which returned no
\* cache opportunity at all
C22_GeneralComponentUnreported ==
    /\ last.op = "optimize_workflow"
    /\ workflow # None
    /\ detection.components # <<>>
    /\ \A i \in DOMAIN detection.components :
          classify_task(detection.components[i]).task_type = "general"
    /\ workflow.cache_opportunities = <<>>

\* the components on which at least one step was kept, in component order
Optimized ==
    SelectSeq([i \in DOMAIN workflow.original_calculations |-> i],
              LAMBDA i : workflow.optimized_calculations[i]
                            # workflow.original_calculations[i])

\* C26: every component with a kept step has one entry in optimization_results
\* whose savings are its baseline total_cost minus its final optimized
\* total_cost; the savings of optimization_results add up to total_savings,
\* which is total_original_cost - total_optimized_cost; there is at most one
\* entry per component, and exactly one optimized calculation per component
C26_SavingsTelescope ==
    workflow # None =>
        /\ Len(workflow.optimization_results) = Len(Optimized)
        /\ \A k \in DOMAIN Optimized :
              workflow.optimization_results[k].savings
                 = workflow.original_calculations[Optimized[k]].total_cost
                     - workflow.optimized_calculations[Optimized[k]].total_cost
        /\ SumField(workflow.optimization_results, "savings", 1) = workflow.total_savings
        /\ workflow.total_savings
              = workflow.total_original_cost - workflow.total_optimized_cost
        /\ Len(workflow.optimization_results) <= Len(detection.components)
        /\ Len(workflow.optimized_calculations) = Len(detection.components)

\* C26: two components, the first with two kept steps and one combined entry,
\* the second with none
C26_CombinedEntryTelescopes ==
    /\ workflow # None
    /\ Len(detection.components) = 2
    /\ Len(workflow.strategies_applied) = 2
    /\ Optimized = <<1>>
    /\ Len(workflow.optimization_results) = 1
    /\ workflow.optimization_results[1].savings = workflow.total_savings
    /\ workflow.total_savings > 0

-----------------------------------------------------------------------------
(* Properties of the helper functions, checked under HelperSpec *)

\* the call was on a list with exactly two agents and no chat edge from one
\* of the two to the other
TwoUnlinkedAgents ==
    /\ last.op = "identify_parallel_opportunities"
    /\ Len(OfType(input.components, "agent")) = 2
    /\ ~CalledBy(OfType(input.components, "agent")[1].name,
                 OfType(input.components, "agent")[2].name, input.workflow_patterns)
    /\ ~CalledBy(OfType(input.components, "agent")[2].name,
                 OfType(input.components, "agent")[1].name, input.workflow_patterns)

UnknownOperationEstimated ==
    /\ last.op = "estimate_tokens"
    /\ input.operation_type \notin DOMAIN token_rules \cup DOMAIN output_ratios

SearchedTexts(component) ==
    LET md == component.metadata
        TextOf(key) == IF key \in DOMAIN md /\ md[key] # None
                       THEN Lower(md[key].some.fragments) ELSE <<>>
    IN  <<Lower(component.name.fragments), TextOf("system_message"), TextOf("template")>>

\* the category the ordered search over those texts ends with
SearchedTask(component) ==
    LET texts == SearchedTexts(component)
        hits  == {i \in DOMAIN texts : FirstMatch(texts[i], 1) # ""}
    IN  IF hits = {} THEN "general"
        ELSE FirstMatch(texts[CHOOSE i \in hits : \A j \in hits : i <= j], 1)

AttemptsOn(component) ==
    Only({ Only({ Only({ TokenReductionStep(c2, ct).attempted :
                         c2 \in {CachingStep(c1, component, ct)} }) :
                  c1 \in {SubstitutionStep(Chain(Baseline(component), None, <<>>, "none"),
                                           component, ct)} }) :
           ct \in {classify_task(component).task_type} })

\* the calls of one type among them
OfKind(attempts, type) == SelectSeq(attempts, LAMBDA a : a.type = type)

\* the single component of the run and its task category
Single == detection.components[1]
SingleTask == classify_task(Single).task_type

\* C21 as stated: which steps are attempted on a component is determined by
\* its task category alone, so any two components of one category get the same
\* attempts
C21_StepsByCategoryAlone ==
    (last.op = "optimize_workflow" /\ workflow # None) =>
        \A other \in CategoryComponents :
            classify_task(other).task_type = SingleTask =>
                AttemptsOn(BackFill(other)) = AttemptsOn(Single)

\* C21, amended: whether caching and token reduction are attempted, and at
\* which rate, is determined by the task category alone: caching at 0.30
\* exactly for classification, validation and formatting, at 0.15 exactly for
\* extraction and qa, and for no other category; token reduction at 0.2 exactly
\* for summarization and extraction
C21_CachingAndReductionByCategory ==
    (last.op = "optimize_workflow" /\ workflow # None) =>
        /\ OfKind(AttemptsOn(Single), "caching")
              = IF SingleTask \in {"classification", "validation", "formatting"}
                THEN <<[type |-> "caching", rate |-> 30]>>
                ELSE IF SingleTask \in {"extraction", "qa"}
                THEN <<[type |-> "caching", rate |-> 15]>>
                ELSE <<>>
        /\ OfKind(AttemptsOn(Single), "token_reduction")
              = IF SingleTask \in {"summarization", "extraction"}
                THEN <<[type |-> "token_reduction", rate |-> 20]>>
                ELSE <<>>

\* C21: an extraction component was optimized: caching at 0.15, then token
\* reduction at 0.2
C21_ExtractionAttempts ==
    /\ last.op = "optimize_workflow" /\ workflow # None
    /\ SingleTask = "extraction"
    /\ Single.model = None
    /\ AttemptsOn(Single) = <<[type |-> "caching", rate |-> 15],
                              [type |-> "token_reduction", rate |-> 20]>>

\* what model substitution alone saved on a back-filled component: its
\* baseline cost minus the cost right after the substitution step, 0 when the
\* substitution was not kept
SubstitutionAlone(component) ==
    Only({ IF c1.applied = <<>> THEN 0
           ELSE c1.original_calc.total_cost - c1.best_calc.total_cost :
           c1 \in {SubstitutionStep(Chain(Baseline(component), None, <<>>, "none"),
                                    component, classify_task(component).task_type)} })

\* the model-routing recommendations of the run
RoutingRecommendations ==
    SelectSeq(workflow.recommendations, LAMBDA r : r.kind = "model_routing")

\* C23: the dollar amount of the model-routing recommendation is the saving
\* from model substitution alone; what caching or token reduction saved on the
\* same component is not counted in it
C23_RoutingAmountIsSubstitutionAlone ==
    (last.op = "optimize_workflow" /\ workflow # None) =>
        \A i \in DOMAIN RoutingRecommendations :
            RoutingRecommendations[i].dollars_x100 = Cents(SubstitutionAlone(Single))

\* C23: substitution alone saved $0.09 on the component, caching was kept too,
\* and the recommendation quotes $0.10
C23_CachingCountedInAmount ==
    /\ last.op = "optimize_workflow" /\ workflow # None
    /\ Len(workflow.strategies_applied) = 2
    /\ Cents(SubstitutionAlone(Single)) = 9
    /\ RoutingRecommendations = <<[kind |-> "model_routing", dollars_x100 |-> 10]>>

\* the single component as the client handed it over
SingleBefore == input.detection_result.components[1]

\* the model the baseline is priced with: the declared one, or the default
DeclaredOrDefault(component) ==
    IF component.model = None THEN DefaultModel ELSE component.model.some[1]

\* C24: after optimize_workflow a component whose estimate was None or 0 has
\* 1500 if it is an agent, 1000 if a chain, 500 otherwise, a component with a
\* positive estimate keeps it, and the baseline has input_tokens =
\* estimated_tokens, output_tokens = floor(0.3 * estimated_tokens) and the
\* declared model, or gpt-3.5-turbo when none is declared
C24_BackFillOnlyMissing ==
    last.op = "optimize_workflow" =>
        /\ (SingleBefore.estimated_tokens = None \/ SingleBefore.estimated_tokens = Some(0))
              => Single.estimated_tokens
                    = Some(CASE SingleBefore.type = "agent" -> 1500
                             [] SingleBefore.type = "chain" -> 1000
                             [] OTHER -> 500)
        /\ (SingleBefore.estimated_tokens # None /\ SingleBefore.estimated_tokens.some > 0)
              => Single.estimated_tokens = SingleBefore.estimated_tokens
        /\ Single = [SingleBefore EXCEPT !.estimated_tokens = Single.estimated_tokens]
        /\ workflow # None =>
              /\ Len(workflow.original_calculations) = 1
              /\ workflow.original_calculations[1].input_tokens = Single.estimated_tokens.some
              /\ workflow.original_calculations[1].output_tokens
                    = (3 * Single.estimated_tokens.some) \div 10
              /\ workflow.original_calculations[1].model = <<DeclaredOrDefault(SingleBefore)>>
              /\ workflow.original_calculations[1].input_price_per_1k
                    = model_pricing[DeclaredOrDefault(SingleBefore)].input_cost_per_1k
              /\ workflow.original_calculations[1].output_price_per_1k
                    = model_pricing[DeclaredOrDefault(SingleBefore)].output_cost_per_1k

\* C24: a tool without a declared model and with an estimate of 0 was costed
\* at 500 input and 150 output tokens of gpt-3.5-turbo
C24_ToolBackFilled ==
    /\ last.op = "optimize_workflow" /\ workflow # None
    /\ SingleBefore.type = "tool" /\ SingleBefore.model = None
    /\ SingleBefore.estimated_tokens = Some(0)
    /\ Single.estimated_tokens = Some(500)
    /\ workflow.original_calculations[1].output_tokens = 150
    /\ workflow.original_calculations[1].model = <<DefaultModel>>

\* the 'parallel_agents' entries of the returned opportunities
ParallelAgentGroups == SelectSeq(returned, LAMBDA o : o.type = "parallel_agents")

\* C25: in every 'parallel_agents' group returned by
\* identify_parallel_opportunities no member is the target of a chat edge whose
\* source is another member of the group
C25_NoEdgeInsideGroup ==
    last.op = "identify_parallel_opportunities" =>
        \A g \in DOMAIN ParallelAgentGroups :
            \A a, b \in DOMAIN ParallelAgentGroups[g].agents :
                a # b => ~CalledBy(ParallelAgentGroups[g].agents[a],
                                   ParallelAgentGroups[g].agents[b],
                                   input.workflow_patterns)

\* C25: two agents were grouped although the patterns hold chat edges, one of
\* them into a member of the group
C25_GroupBesideEdges ==
    /\ last.op = "identify_parallel_opportunities"
    /\ Len(ParallelAgentGroups) = 1
    /\ Len(ParallelAgentGroups[1].agents) = 2
    /\ \E p \in DOMAIN input.workflow_patterns :
          /\ input.workflow_patterns[p].type = "chat"
          /\ input.workflow_patterns[p].to \in Range(ParallelAgentGroups[1].agents)

\* the target suggested for the single component of the run
SingleTarget == suggest_model_substitution(Single, SingleTask)

\* C27: a component that declares no model gets no substitution target and its
\* optimized calculation keeps the default model, whatever its category; a
\* target that is suggested is in the pricing table, with input and output
\* prices strictly below those of the declared model
C27_NoModelNoSubstitution ==
    (last.op = "optimize_workflow" /\ workflow # None) =>
        /\ SingleBefore.model = None =>
              /\ SingleTarget = None
              /\ workflow.optimized_calculations[1].model = <<DefaultModel>>
              /\ ~Substituted(workflow.optimized_calculations[1])
              /\ strategies[1] \notin Range(workflow.strategies_applied)
        /\ SingleTarget # None =>
              /\ InPricing(SingleTarget.some)
              /\ model_pricing[SingleTarget.some[1]].input_cost_per_1k
                    < model_pricing[SingleBefore.model.some[1]].input_cost_per_1k
              /\ model_pricing[SingleTarget.some[1]].output_cost_per_1k
                    < model_pricing[SingleBefore.model.some[1]].output_cost_per_1k

\* C27: a classification component without a declared model was costed with
\* the default model and optimized by caching only
C27_UndeclaredClassifierCached ==
    /\ last.op = "optimize_workflow" /\ workflow # None
    /\ SingleBefore.model = None
    /\ SingleTask = "classification"
    /\ workflow.strategies_applied = <<strategies[2]>>
    /\ workflow.optimized_calculations[1].model = <<DefaultModel>>

-----------------------------------------------------------------------------
(* Properties of analyze_repository, checked under AnalyzeSpec *)

\* the results of the detectors that have run so far and did not fail
Succeeded ==
    {input.outcomes[i] : i \in {j \in 1..(frame.detector - 1) :
                                     input.outcomes[j] # DetectorFailed}}

\* the highest score among them, none when there is no such result
HighestScore ==
    IF Succeeded = {} THEN None
    ELSE Some(CHOOSE sc \in {r.confidence_score : r \in Succeeded} :
                 \A r \in Succeeded : r.confidence_score <= sc)

NotSupported == HighestScore = None \/ HighestScore.some < 10

\* C18: every detector is run and the result kept is one with the highest
\* score among the detectors that did not fail; when none succeeded or the best
\* score is below 10, optimize_workflow is never invoked, the request ends with
\* the 'no supported framework' error and the status is 'failed'
C18_DetectorSelection ==
    frame # None =>
        /\ frame.pc \in {"optimize", "report"} \/ (frame.pc = "done" /\ input.fetch = "returns")
              => frame.detector = Len(detectors) + 1
        /\ frame.best_result # None =>
              /\ frame.best_result \in Succeeded
              /\ frame.best_result.confidence_score = HighestScore.some
        /\ (frame.best_result = None /\ HighestScore # None) => HighestScore.some = 0
        /\ frame.optimizer_calls > 0 => ~NotSupported
        /\ (frame.pc \in {"optimize", "report"}) => ~NotSupported
        /\ (frame.pc = "done" /\ input.fetch = "returns" /\ NotSupported) =>
              /\ frame.optimizer_calls = 0
              /\ raised = "HTTPException"
              /\ frame.http = HTTPException(400, NoFrameworkDetail)
              /\ analysis_cache.status = "failed"

\* C18: both detectors returned, the best score is 9, and the request was
\* aborted without a call of the optimizer
C18_LowScoreAborted ==
    /\ frame # None /\ frame.pc = "done"
    /\ frame.best_result # None /\ frame.best_score = 9
    /\ \A i \in DOMAIN detectors : input.outcomes[i] # DetectorFailed
    /\ frame.optimizer_calls = 0
    /\ analysis_cache.status = "failed"

-----------------------------------------------------------------------------
(* Properties of the request among other requests, checked under ServeSpec *)

\* C28: under every interleaving with other requests analyze_repository ends
\* with a successful response or with an HTTPException; a delete_analysis of
\* its id during the fetch does not make it fail with an unhandled error
C28_EndsWithResponseOrHTTPException ==
    (frame # None /\ frame.pc = "done") =>
        \/ raised = "none" /\ returned # None
        \/ raised = "HTTPException"

\* C28: the entry was deleted while the handler awaited the fetch, and the
\* handler ended with a KeyError
C28_DeletedDuringFetch ==
    /\ frame # None /\ frame.pc = "done"
    /\ analysis_cache = None
    /\ raised = "KeyError"
    /\ returned = None

\* what holds of the cache entry in a state: a completed entry has progress 100
\* and a stored result, a failed one has an error message and no result
EntryConsistent ==
    analysis_cache # None =>
        /\ analysis_cache.status \in {"processing", "completed", "failed"}
        /\ analysis_cache.status = "completed" =>
              analysis_cache.progress = 100 /\ analysis_cache.result # None
        /\ analysis_cache.status = "failed" =>
              analysis_cache.error # None /\ analysis_cache.result = None

\* what holds of the entry from one state to the next while it exists: the
\* status changes from 'processing' only, and the progress does not decrease
EntryStep ==
    (analysis_cache # None /\ analysis_cache' # None) =>
        /\ analysis_cache'.progress >= analysis_cache.progress
        /\ analysis_cache'.status # analysis_cache.status =>
              /\ analysis_cache.status = "processing"
              /\ analysis_cache'.status \in {"completed", "failed"}

\* get_analysis_report answered with a report
ReportReturned == last.op = "get_analysis_report" /\ last.status_code = 200

\* C29: the entry goes from 'processing' to 'completed' or to 'failed' and
\* never leaves a terminal status, its progress never decreases, 'completed'
\* goes with progress 100 and a stored result, 'failed' with an error message
\* and no result, and get_analysis_report returns a report only for a
\* completed entry
C29_EntryLifecycle ==
    /\ [](EntryConsistent)
    /\ [](ReportReturned => analysis_cache # None /\ analysis_cache.status = "completed")
    /\ [][EntryStep]_vars

\* C29: the analysis completed and another request was given its report
C29_ReportOfCompleted ==
    /\ ReportReturned
    /\ analysis_cache # None
    /\ analysis_cache.status = "completed"
    /\ analysis_cache.progress = 100

-----------------------------------------------------------------------------
(* Properties of _fetch_with_retry, checked under FetchSpec *)

\* the outcome of the last GET made
LastOutcome == input.outcomes[frame.requests]

FetchDone == frame # None /\ frame.pc = "done"

\* the call has ended as its last GET requires
EndsAsRequired ==
    (FetchDone /\ frame.requests > 0) =>
        IF IsResponse(LastOutcome) /\ LastOutcome.status_code = 200
            THEN returned = Some([json_of |-> frame.requests]) /\ raised = "none"
        ELSE /\ returned = None
             /\ raised # "none"
             /\ (IsResponse(LastOutcome) /\ LastOutcome.status_code = 403) =>
                   /\ raised = "GitHub API rate limit exceeded"
                   /\ frame.requests = input.max_retries + 1
             /\ (~IsResponse(LastOutcome)) =>
                   /\ raised = IF LastOutcome.exception = "TimeoutException"
                               THEN "Request timeout after multiple retries"
                               ELSE "Failed to connect to GitHub"
                   /\ frame.requests = input.max_retries + 1

\* no GET was made after a 200 or a 404, and a 403, a timeout or a connection
\* error was followed by another GET only while attempts remained
RetriedAsRequired ==
    frame # None =>
        \A k \in 1..frame.requests :
            k < frame.requests =>
                /\ k <= input.max_retries
                /\ IsResponse(input.outcomes[k]) =>
                      input.outcomes[k].status_code \notin {200, 404}

\* C30: _fetch_with_retry terminates after at most max_retries + 1 requests,
\* with the JSON body of a 200 response or with an exception; a 200 or a 404
\* ends it on that attempt, and a 403, a timeout or a connection error is
\* retried only while attempts remain and raises once attempt max_retries has
\* failed
C30_FetchTerminates ==
    /\ [](frame # None => frame.requests <= input.max_retries + 1)
    /\ [](EndsAsRequired)
    /\ [](RetriedAsRequired)
    /\ <>(FetchDone)

\* C30: with max_retries = 2, a 403 and a timeout were retried and the third
\* GET returned the JSON body
C30_RetriedThenReturned ==
    /\ FetchDone
    /\ input.max_retries = 2
    /\ frame.requests = 3
    /\ input.outcomes[1] = [status_code |-> 403]
    /\ input.outcomes[2] = [exception |-> "TimeoutException"]
    /\ returned = Some([json_of |-> 3])
    /\ frame.slept = 65

====
